---- MODULE Spec2Model ----
(***************************************************************************)
(* Verification model of the SAPD backend's auxiliary state machines:      *)
(*   - the scorecard lifecycle (app/core/patterns/state.py and the         *)
(*     handlers of app/api/scorecards.py),                                 *)
(*   - the weight-change command history (app/core/patterns/command.py     *)
(*     over the weights_store of app/api/config.py),                       *)
(*   - the supplier-data caching proxy (app/core/patterns/proxy_chain.py   *)
(*     as configured in app/api/supply_chain.py).                          *)
(* Each subsystem has its own specification over the shared variables.     *)
(***************************************************************************)
EXTENDS Integers, Sequences, FiniteSets, TLC

(***************************************************************************)
(* Bounds of the model.                                                    *)
(***************************************************************************)
\* number of scorecards that may be created
MaxScorecards == 2

\* product names and scores a client may submit in ScorecardCreate
ProductNames == {"tshirt", "jacket"}
Scores == {40, 75}

\* longest command history explored
MaxHistory == 3

\* latest reading of datetime.now() explored
MaxCmdTime == 1

\* most criteria in one PUT /config/weights body
MaxUpdateKeys == 2

\* criteria and weights (in hundredths) a client may submit in WeightUpdate
CriteriaInputs == {"carbon_footprint", "durability"}
NewWeights == {50, 90}

\* latest reading of time.time() explored, and the steps it advances by
MaxTime == 600
TickSteps == {100, 150}

\* number of requests handed to the handler chain directly
MaxChainLog == 3

\* most child entries over all composites
MaxEdges == 3

\* most badges stacked on one component
MaxBadges == 3

\* most products created
MaxProducts == 2

\* most entries in the subject's observer list
MaxAttached == 3

\* most requests the worker threads take up
MaxRequests == 4

\* most records, and most recorded components, the report visitor holds
MaxRecords == 3

\* most calls of CommandHistory.execute on the history driven directly
MaxExecutes == 4

\* supplier ids a client may ask for
SupplierIds == {"SUP001", "SUP999"}

VARIABLES
    scorecards_db,   \* scorecards.py: scorecard_id -> Scorecard object
    sc_last          \* the last scorecard request and its HTTP outcome

scVars == <<scorecards_db, sc_last>>

VARIABLES
    weights_store,        \* config.py: the process-wide weight mapping
    _history,             \* CommandHistory._history: <<command, timestamp>> pairs
    _undo_stack,          \* CommandHistory._undo_stack: undone commands
    subject_weights,      \* WeightConfigSubject._weights: which dict it refers to
    module_weights,       \* ScoringModule._current_weights of the three modules
    cmd_now,              \* the last reading of datetime.now()
    cmd_last,             \* the last changing config request and its response
    cmd_read,             \* the response of the last request if it only read
    undo_since_execute    \* history: an undo succeeded since the last execute

cmdVars == <<weights_store, _history, _undo_stack, subject_weights, module_weights,
             cmd_now, cmd_last, cmd_read, undo_since_execute>>

(***************************************************************************)
(* Scorecard lifecycle: app/core/patterns/state.py                         *)
(***************************************************************************)
Events == {"edit", "submit_for_review", "certify", "deprecate"}

\* mutant of set_state: the transition also resets the score
set_state_ResetsScore(scorecard, state) ==
    [scorecard EXCEPT !._state = state, !.score = 0]

\* Scorecard.set_state
set_state(scorecard, state) == [scorecard EXCEPT !._state = state]

\* Scorecard.__init__
Scorecard(scorecard_id, product_name, score) ==
    [scorecard_id |-> scorecard_id, product_name |-> product_name,
     score |-> score, _state |-> "DraftState"]

\* a state method that returns normally, leaving the scorecard as given
Returns(scorecard) == [error |-> "", scorecard |-> scorecard]

\* raise InvalidStateTransitionError(reason)
InvalidStateTransitionError(scorecard, reason) ==
    [error |-> reason, scorecard |-> scorecard]

\* mutant of DraftState: certify moves the scorecard before it raises
DraftState_CertifyMutates(event, scorecard) ==
    CASE event = "edit" -> Returns(scorecard)
      [] event = "submit_for_review" -> Returns(set_state(scorecard, "InReviewState"))
      [] event = "certify" ->
            InvalidStateTransitionError(set_state(scorecard, "CertifiedState"),
                                        "Cannot certify a draft scorecard")
      [] event = "deprecate" ->
            InvalidStateTransitionError(scorecard, "Cannot deprecate a draft scorecard")

DraftState(event, scorecard) ==
    CASE event = "edit" -> Returns(scorecard)
      [] event = "submit_for_review" -> Returns(set_state(scorecard, "InReviewState"))
      [] event = "certify" ->
            InvalidStateTransitionError(scorecard, "Cannot certify a draft scorecard")
      [] event = "deprecate" ->
            InvalidStateTransitionError(scorecard, "Cannot deprecate a draft scorecard")

\* mutant of InReviewState: edit leaves the scorecard in review
InReviewState_EditStays(event, scorecard) ==
    CASE event = "edit" -> Returns(scorecard)
      [] event = "submit_for_review" ->
            InvalidStateTransitionError(scorecard, "Already in review")
      [] event = "certify" -> Returns(set_state(scorecard, "CertifiedState"))
      [] event = "deprecate" ->
            InvalidStateTransitionError(scorecard, "Cannot deprecate a scorecard in review")

InReviewState(event, scorecard) ==
    CASE event = "edit" -> Returns(set_state(scorecard, "DraftState"))
      [] event = "submit_for_review" ->
            InvalidStateTransitionError(scorecard, "Already in review")
      [] event = "certify" -> Returns(set_state(scorecard, "CertifiedState"))
      [] event = "deprecate" ->
            InvalidStateTransitionError(scorecard, "Cannot deprecate a scorecard in review")

CertifiedState(event, scorecard) ==
    CASE event = "edit" ->
            InvalidStateTransitionError(scorecard, "Cannot edit a certified scorecard")
      [] event = "submit_for_review" ->
            InvalidStateTransitionError(scorecard, "Already certified")
      [] event = "certify" ->
            InvalidStateTransitionError(scorecard, "Already certified")
      [] event = "deprecate" -> Returns(set_state(scorecard, "DeprecatedState"))

\* mutant of DeprecatedState: a deprecated scorecard can be edited back to Draft
DeprecatedState_EditReopens(event, scorecard) ==
    CASE event = "edit" -> Returns(set_state(scorecard, "DraftState"))
      [] event = "submit_for_review" ->
            InvalidStateTransitionError(scorecard, "Cannot submit deprecated scorecard")
      [] event = "certify" ->
            InvalidStateTransitionError(scorecard, "Cannot certify deprecated scorecard")
      [] event = "deprecate" ->
            InvalidStateTransitionError(scorecard, "Already deprecated")

DeprecatedState(event, scorecard) ==
    CASE event = "edit" ->
            InvalidStateTransitionError(scorecard, "Cannot edit a deprecated scorecard")
      [] event = "submit_for_review" ->
            InvalidStateTransitionError(scorecard, "Cannot submit deprecated scorecard")
      [] event = "certify" ->
            InvalidStateTransitionError(scorecard, "Cannot certify deprecated scorecard")
      [] event = "deprecate" ->
            InvalidStateTransitionError(scorecard, "Already deprecated")

\* ScorecardState.get_state_name of each state class
StateLabel(state) ==
    CASE state = "DraftState" -> "Draft"
      [] state = "InReviewState" -> "InReview"
      [] state = "CertifiedState" -> "Certified"
      [] state = "DeprecatedState" -> "Deprecated"

\* Scorecard.get_state_name
get_state_name(scorecard) == StateLabel(scorecard._state)

\* Scorecard.edit / submit_for_review / certify / deprecate: delegate to the
\* current state object
ScorecardCall(event, scorecard) ==
    CASE scorecard._state = "DraftState" -> DraftState(event, scorecard)
      [] scorecard._state = "InReviewState" -> InReviewState(event, scorecard)
      [] scorecard._state = "CertifiedState" -> CertifiedState(event, scorecard)
      [] scorecard._state = "DeprecatedState" -> DeprecatedState(event, scorecard)

(***************************************************************************)
(* Scorecard handlers: app/api/scorecards.py                               *)
(***************************************************************************)
ScorecardIds == 1..MaxScorecards

NoCall == [op |-> "none", id |-> 0, pre |-> "none", status |-> 0,
           detail |-> "", state |-> "none"]

\* ScorecardResponse(...) built at the end of each handler
ScorecardResponse(op, id, pre, scorecard) ==
    [op |-> op, id |-> id, pre |-> pre, status |-> 200, detail |-> "",
     state |-> get_state_name(scorecard)]

\* raise HTTPException(status_code, detail)
HTTPException(op, id, pre, status_code, detail) ==
    [op |-> op, id |-> id, pre |-> pre, status |-> status_code,
     detail |-> detail, state |-> "none"]

\* POST /scorecards/ : uuid4() yields an id not used before
create_scorecard(product_name, score) ==
    \E scorecard_id \in ScorecardIds \ DOMAIN scorecards_db :
        LET scorecard == Scorecard(scorecard_id, product_name, score)
        IN  /\ scorecards_db' = (scorecard_id :> scorecard) @@ scorecards_db
            /\ sc_last' = ScorecardResponse("create", scorecard_id, "none", scorecard)

\* GET /scorecards/{scorecard_id}
get_scorecard(scorecard_id) ==
    /\ UNCHANGED scorecards_db
    /\ IF scorecard_id \notin DOMAIN scorecards_db
       THEN sc_last' = HTTPException("get", scorecard_id, "none", 404, "Scorecard not found")
       ELSE sc_last' = ScorecardResponse("get", scorecard_id,
                           get_state_name(scorecards_db[scorecard_id]),
                           scorecards_db[scorecard_id])

\* the common body of the four transition handlers
TransitionHandler(event, scorecard_id) ==
    IF scorecard_id \notin DOMAIN scorecards_db
    THEN /\ sc_last' = HTTPException(event, scorecard_id, "none", 404, "Scorecard not found")
         /\ UNCHANGED scorecards_db
    ELSE LET scorecard == scorecards_db[scorecard_id]
             pre == get_state_name(scorecard)
             r == ScorecardCall(event, scorecard)
         IN  /\ scorecards_db' = [scorecards_db EXCEPT ![scorecard_id] = r.scorecard]
             /\ sc_last' = IF r.error # ""
                           THEN HTTPException(event, scorecard_id, pre, 400, r.error)
                           ELSE ScorecardResponse(event, scorecard_id, pre, r.scorecard)

\* POST /scorecards/{scorecard_id}/submit-review
submit_for_review(scorecard_id) == TransitionHandler("submit_for_review", scorecard_id)

\* POST /scorecards/{scorecard_id}/certify
certify_scorecard(scorecard_id) == TransitionHandler("certify", scorecard_id)

\* POST /scorecards/{scorecard_id}/deprecate
deprecate_scorecard(scorecard_id) == TransitionHandler("deprecate", scorecard_id)

\* POST /scorecards/{scorecard_id}/edit
edit_scorecard(scorecard_id) == TransitionHandler("edit", scorecard_id)

(***************************************************************************)
(* Weight-change commands: app/core/patterns/command.py                    *)
(***************************************************************************)
\* Python's None, and a present value, as dict.get returns them
None == <<>>
Some(v) == <<v>>

\* dict.get(key)
dict_get(d, key) == IF key \in DOMAIN d THEN Some(d[key]) ELSE None

\* d[key] = value
dict_set(d, key, value) == [k \in DOMAIN d \cup {key} |-> IF k = key THEN value ELSE d[k]]

\* del d[key] (the key is present)
dict_del(d, key) == [k \in DOMAIN d \ {key} |-> d[k]]

\* UpdateWeightCommand.__init__
UpdateWeightCommand(criterion_name, new_weight) ==
    [_criterion_name |-> criterion_name, _new_weight |-> new_weight,
     _old_weight |-> None]

\* UpdateWeightCommand.execute: the command remembers the previous value
UpdateWeightCommand_execute(config, command) ==
    [config |-> dict_set(config, command._criterion_name, command._new_weight),
     command |-> [command EXCEPT !._old_weight = dict_get(config, command._criterion_name)]]

\* mutant of UpdateWeightCommand.undo: a key that did not exist is left in place
UpdateWeightCommand_undo_KeepsNewKey(config, command) ==
    IF command._old_weight = None
    THEN [error |-> "", config |-> config]
    ELSE [error |-> "",
          config |-> dict_set(config, command._criterion_name, command._old_weight[1])]

\* UpdateWeightCommand.undo: del raises KeyError when the key is gone
UpdateWeightCommand_undo(config, command) ==
    IF command._old_weight = None
    THEN IF command._criterion_name \in DOMAIN config
         THEN [error |-> "", config |-> dict_del(config, command._criterion_name)]
         ELSE [error |-> "KeyError", config |-> config]
    ELSE [error |-> "",
          config |-> dict_set(config, command._criterion_name, command._old_weight[1])]

\* UpdateWeightCommand.get_description
get_description(command) ==
    <<"Update weight", command._criterion_name, "from", command._old_weight,
      "to", command._new_weight>>

\* the state a CommandHistory works on: its two lists and the mapping its
\* commands were built over
HistoryState(config, history, undo_stack) ==
    [config |-> config, history |-> history, undo_stack |-> undo_stack]

\* s[:-1]
ButLast(s) == SubSeq(s, 1, Len(s) - 1)

\* mutant of CommandHistory.execute: the undone commands are kept
CommandHistory_execute_KeepsRedo(st, command, now) ==
    LET r == UpdateWeightCommand_execute(st.config, command)
    IN  HistoryState(r.config, Append(st.history, <<r.command, now>>), st.undo_stack)

\* CommandHistory.execute
CommandHistory_execute(st, command, now) ==
    LET r == UpdateWeightCommand_execute(st.config, command)
    IN  HistoryState(r.config, Append(st.history, <<r.command, now>>), <<>>)

\* mutant of CommandHistory.undo: the undone command stays in the history
CommandHistory_undo_KeepsEntry(st) ==
    IF st.history = <<>>
    THEN [ok |-> FALSE, error |-> "", st |-> st]
    ELSE LET command == st.history[Len(st.history)][1]
             r == UpdateWeightCommand_undo(st.config, command)
         IN  [ok |-> r.error = "", error |-> r.error,
              st |-> HistoryState(r.config, st.history, Append(st.undo_stack, command))]

\* CommandHistory.undo
CommandHistory_undo(st) ==
    IF st.history = <<>>
    THEN [ok |-> FALSE, error |-> "", st |-> st]
    ELSE LET command == st.history[Len(st.history)][1]
             r == UpdateWeightCommand_undo(st.config, command)
         IN  IF r.error # ""
             THEN [ok |-> FALSE, error |-> r.error,
                   st |-> HistoryState(st.config, ButLast(st.history), st.undo_stack)]
             ELSE [ok |-> TRUE, error |-> "",
                   st |-> HistoryState(r.config, ButLast(st.history),
                                       Append(st.undo_stack, command))]

\* mutant of CommandHistory.redo: an empty stack is reported as a success
CommandHistory_redo_NoFailure(st, now) ==
    IF st.undo_stack = <<>>
    THEN [ok |-> TRUE, error |-> "", st |-> st]
    ELSE LET command == st.undo_stack[Len(st.undo_stack)]
             r == UpdateWeightCommand_execute(st.config, command)
         IN  [ok |-> TRUE, error |-> "",
              st |-> HistoryState(r.config, Append(st.history, <<r.command, now>>),
                                  ButLast(st.undo_stack))]

\* CommandHistory.redo
CommandHistory_redo(st, now) ==
    IF st.undo_stack = <<>>
    THEN [ok |-> FALSE, error |-> "", st |-> st]
    ELSE LET command == st.undo_stack[Len(st.undo_stack)]
             r == UpdateWeightCommand_execute(st.config, command)
         IN  [ok |-> TRUE, error |-> "",
              st |-> HistoryState(r.config, Append(st.history, <<r.command, now>>),
                                  ButLast(st.undo_stack))]

\* datetime.isoformat
isoformat(ts) == [iso |-> ts]

\* CommandHistory.get_history_log
get_history_log(history) ==
    [i \in 1..Len(history) |->
        [description |-> get_description(history[i][1]),
         executed_at |-> isoformat(history[i][2])]]

(***************************************************************************)
(* Configuration handlers: app/api/config.py                               *)
(***************************************************************************)
\* the three scoring modules attached to weight_config at import
ScoringModules == {"higg_index", "carbon_footprint", "circular_economy"}

\* WeightConfigSubject.set_weights(weights_store): the subject keeps the
\* reference it is given and notify() hands the same reference to every module
set_weights ==
    /\ subject_weights' = "weights_store"
    /\ module_weights' = [m \in ScoringModules |-> "weights_store"]

\* the state of command_history over weights_store
CurrentHistory == HistoryState(weights_store, _history, _undo_stack)

SetHistory(st) ==
    /\ weights_store' = st.config
    /\ _history' = st.history
    /\ _undo_stack' = st.undo_stack

\* cmd_read when the last request was not a reading one
NoRead == [op |-> "none"]

\* where a request stands in a run execute, undo, redo of consecutive
\* requests: 1 after an execute, 2 after an undo that directly follows an
\* execute, 3 after a redo that directly follows such an undo, else 0
Chain(op) ==
    CASE op = "execute" -> 1
      [] op = "undo" -> IF cmd_last.chain = 1 THEN 2 ELSE 0
      [] op = "redo" -> IF cmd_last.chain = 2 THEN 3 ELSE 0
      [] OTHER -> 0

\* the readings datetime.now() may give next
Clock(from) == { t \in from..MaxCmdTime : t <= from + 1 }

\* request bodies: the (criterion, weight) items of WeightUpdate.weights in
\* the order the dict iterates them
WeightUpdates ==
    { wd \in UNION { [1..n -> CriteriaInputs \X NewWeights] : n \in 0..MaxUpdateKeys } :
        \A i, j \in DOMAIN wd : i # j => wd[i][1] # wd[j][1] }

\* the loop of update_weights over items i..Len(weight_data): one command per
\* item, each stamped with its own datetime.now()
RECURSIVE ExecuteAll(_, _, _, _)
ExecuteAll(st, weight_data, i, times) ==
    IF i > Len(weight_data) THEN st
    ELSE ExecuteAll(CommandHistory_execute(st,
                        UpdateWeightCommand(weight_data[i][1], weight_data[i][2]),
                        times[i]),
                    weight_data, i + 1, times)

\* PUT /config/weights
update_weights(weight_data) ==
    /\ Len(_history) + Len(weight_data) <= MaxHistory
    /\ \E times \in [1..Len(weight_data) -> cmd_now..MaxCmdTime] :
          /\ \A i \in DOMAIN times :
                times[i] \in Clock(IF i = 1 THEN cmd_now ELSE times[i - 1])
          /\ LET n == Len(weight_data)
                 op == IF n = 0 THEN "update_weights" ELSE "execute"
                 before == ExecuteAll(CurrentHistory, SubSeq(weight_data, 1, n - 1), 1, times)
                 after == ExecuteAll(CurrentHistory, weight_data, 1, times)
             IN  /\ SetHistory(after)
                 /\ cmd_now' = IF n = 0 THEN cmd_now ELSE times[n]
                 /\ cmd_last' = [op |-> op, ok |-> TRUE, error |-> "",
                                 chain |-> Chain(op), before |-> before.config,
                                 message |-> "Weights updated", weights |-> after.config]
                 /\ undo_since_execute' = IF n = 0 THEN undo_since_execute ELSE FALSE
    /\ set_weights
    /\ cmd_read' = NoRead

\* POST /config/weights/undo
undo_weight_change ==
    LET r == CommandHistory_undo(CurrentHistory)
    IN  /\ SetHistory(r.st)
        /\ cmd_last' = [op |-> "undo", ok |-> r.ok, error |-> r.error,
                        chain |-> Chain("undo"), before |-> weights_store,
                        message |-> IF r.error # "" THEN "Internal Server Error"
                                    ELSE IF r.ok THEN "Undo successful"
                                    ELSE "Nothing to undo",
                        weights |-> r.st.config]
        /\ undo_since_execute' = (undo_since_execute \/ r.ok)
        /\ IF r.ok THEN set_weights ELSE UNCHANGED <<subject_weights, module_weights>>
        /\ cmd_read' = NoRead
        /\ UNCHANGED cmd_now

\* POST /config/weights/redo
redo_weight_change ==
    \E now \in Clock(cmd_now) :
        LET r == CommandHistory_redo(CurrentHistory, now)
        IN  /\ SetHistory(r.st)
            /\ cmd_last' = [op |-> "redo", ok |-> r.ok, error |-> r.error,
                            chain |-> Chain("redo"), before |-> weights_store,
                            message |-> IF r.ok THEN "Redo successful"
                                        ELSE "Nothing to redo",
                            weights |-> r.st.config]
            /\ cmd_now' = IF r.ok THEN now ELSE cmd_now
            /\ IF r.ok THEN set_weights ELSE UNCHANGED <<subject_weights, module_weights>>
            /\ cmd_read' = NoRead
            /\ UNCHANGED undo_since_execute

\* GET /config/weights
get_weights ==
    /\ cmd_read' = [op |-> "get_weights", weights |-> weights_store]
    /\ UNCHANGED <<weights_store, _history, _undo_stack, subject_weights,
                   module_weights, cmd_now, cmd_last, undo_since_execute>>

\* GET /config/weights/history
get_weight_history ==
    /\ cmd_read' = [op |-> "get_weight_history", history |-> get_history_log(_history)]
    /\ UNCHANGED <<weights_store, _history, _undo_stack, subject_weights,
                   module_weights, cmd_now, cmd_last, undo_since_execute>>

\* the module-level objects of config.py after import (weights in hundredths)
InitCommand ==
    /\ weights_store = [k \in {"material_sustainability", "carbon_footprint",
                               "water_usage", "social_impact", "circularity"} |->
                          CASE k = "material_sustainability" -> 30
                            [] k = "carbon_footprint" -> 25
                            [] k = "water_usage" -> 20
                            [] k = "social_impact" -> 15
                            [] k = "circularity" -> 10]
    /\ _history = <<>>
    /\ _undo_stack = <<>>
    /\ subject_weights = "own_empty_dict"
    /\ module_weights = [m \in ScoringModules |-> "own_empty_dict"]
    /\ cmd_now = 0
    /\ cmd_last = [op |-> "none", ok |-> TRUE, error |-> "", chain |-> 0,
                   before |-> weights_store, message |-> "", weights |-> weights_store]
    /\ cmd_read = NoRead
    /\ undo_since_execute = FALSE

InitScorecard ==
    /\ scorecards_db = <<>>
    /\ sc_last = NoCall

VARIABLES
    _cache,         \* CachingProxy._cache: cache key -> <<result, cached_at>>
    time_now,       \* the current reading of time.time()
    cache_last,     \* the last supply-chain request and its response
    miss_at,        \* history: per key, when its last miss since the last
                    \* invalidation happened (None: no such miss)
    pending,        \* history: keys not asked for since the last invalidation
    dropped         \* history: keys whose unexpired entry the last invalidation dropped

cacheVars == <<_cache, time_now, cache_last, miss_at, pending, dropped>>

(***************************************************************************)
(* Supplier data chain and cache: app/core/patterns/proxy_chain.py         *)
(***************************************************************************)
\* supply_chain.py: real_data_source
real_data_source ==
    [id \in {"SUP001", "SUP002"} |->
        IF id = "SUP001"
        THEN [supplier_name |-> "EcoTextiles", carbon_footprint_kg |-> 15]
        ELSE [supplier_name |-> "GreenFabrics", carbon_footprint_kg |-> 20]]

\* CachingProxy(real_handler, ttl_seconds=300)
ttl_seconds == 300

\* request.get(key, default)
request_get(request, key, default) ==
    IF key \in DOMAIN request THEN request[key] ELSE default

\* AIEstimationHandler.handle
AIEstimationHandler_handle(request) ==
    [source |-> "ai_estimation",
     data |-> [supplier_name |-> <<"AI_Estimated_",
                                   request_get(request, "supplier_id", "unknown")>>,
               carbon_footprint_kg |-> 35, certifications |-> <<>>,
               is_estimated |-> TRUE]]

\* mutant of next_handler: set_next was never called
next_handler_NotLinked == [real_handler |-> "none", ai_handler |-> "none"]

\* DataHandler._next_handler after supply_chain.py ran set_next
next_handler == [real_handler |-> "ai_handler", ai_handler |-> "none"]

\* DataHandler.handle of the handler object: the answer and the handlers
\* the request went through
RECURSIVE DataHandler_handle(_, _)
DataHandler_handle(handler, request) ==
    IF handler = "ai_handler"
    THEN [result |-> AIEstimationHandler_handle(request), visited |-> <<handler>>]
    ELSE IF /\ "supplier_id" \in DOMAIN request
            /\ request.supplier_id # ""
            /\ request.supplier_id \in DOMAIN real_data_source
         THEN [result |-> [source |-> "real",
                           data |-> real_data_source[request.supplier_id]],
               visited |-> <<handler>>]
         ELSE IF next_handler[handler] # "none"
              THEN LET r == DataHandler_handle(next_handler[handler], request)
                   IN  [result |-> r.result, visited |-> <<handler>> \o r.visited]
              ELSE [result |-> [source |-> "none", data |-> None],
                    visited |-> <<handler>>]

\* real_handler.handle(request): the answer of the configured chain
RealDataHandler_handle(request) == DataHandler_handle("real_handler", request).result

\* str(sorted(request.items())) of a request {"supplier_id": ...}
cache_key(request) == <<"[(", "supplier_id", request.supplier_id, ")]">>

\* {**result, "cached": flag}
WithCached(result, flag) ==
    [source |-> result.source, data |-> result.data, cached |-> flag]

\* mutant of CachingProxy.get_data: a hit stamps the entry with the current time
CachingProxy_get_data_HitRenews(cache, request, current_time) ==
    LET key == cache_key(request)
    IN  IF key \in DOMAIN cache /\ current_time - cache[key][2] < ttl_seconds
        THEN [cache |-> dict_set(cache, key, <<cache[key][1], current_time>>),
              response |-> WithCached(cache[key][1], TRUE),
              queried |-> FALSE]
        ELSE LET result == RealDataHandler_handle(request)
             IN  [cache |-> dict_set(cache, key, <<result, current_time>>),
                  response |-> WithCached(result, FALSE),
                  queried |-> TRUE]

\* CachingProxy.get_data
CachingProxy_get_data(cache, request, current_time) ==
    LET key == cache_key(request)
    IN  IF key \in DOMAIN cache /\ current_time - cache[key][2] < ttl_seconds
        THEN [cache |-> cache,
              response |-> WithCached(cache[key][1], TRUE),
              queried |-> FALSE]
        ELSE LET result == RealDataHandler_handle(request)
             IN  [cache |-> dict_set(cache, key, <<result, current_time>>),
                  response |-> WithCached(result, FALSE),
                  queried |-> TRUE]

\* mutant of CachingProxy.invalidate_cache: the entries survive
CachingProxy_invalidate_cache_KeepsEntries(cache) == cache

\* CachingProxy.invalidate_cache
CachingProxy_invalidate_cache(cache) == <<>>

(***************************************************************************)
(* Supply-chain handlers: app/api/supply_chain.py                          *)
(***************************************************************************)
\* GET /supply-chain/data/{supplier_id}
get_data_with_fallback(supplier_id) ==
    LET request == [supplier_id |-> supplier_id]
        r == CachingProxy_get_data(_cache, request, time_now)
    IN  /\ _cache' = r.cache
        /\ cache_last' = [op |-> "get_data", supplier_id |-> supplier_id,
                          response |-> r.response, queried |-> r.queried]
        /\ miss_at' = IF r.response.cached THEN miss_at
                      ELSE [miss_at EXCEPT ![supplier_id] = Some(time_now)]
        /\ pending' = pending \ {supplier_id}
        /\ UNCHANGED <<time_now, dropped>>

\* POST /supply-chain/cache/invalidate
invalidate_cache ==
    /\ _cache' = CachingProxy_invalidate_cache(_cache)
    /\ cache_last' = [op |-> "invalidate_cache", supplier_id |-> "",
                      response |-> [message |-> "Cache invalidated"],
                      queried |-> FALSE]
    /\ miss_at' = [id \in SupplierIds |-> None]
    /\ pending' = SupplierIds
    /\ dropped' = { id \in SupplierIds :
                      LET key == cache_key([supplier_id |-> id])
                      IN  key \in DOMAIN _cache /\ time_now - _cache[key][2] < ttl_seconds }
    /\ UNCHANGED time_now

\* time passes between requests
Tick(d) ==
    /\ time_now + d <= MaxTime
    /\ time_now' = time_now + d
    /\ UNCHANGED <<_cache, cache_last, miss_at, pending, dropped>>

InitCache ==
    /\ _cache = <<>>
    /\ time_now = 0
    /\ cache_last = [op |-> "none", supplier_id |-> "",
                     response |-> [message |-> ""], queried |-> FALSE]
    /\ miss_at = [id \in SupplierIds |-> None]
    /\ pending = {}
    /\ dropped = {}

(***************************************************************************)
(* The handler chain on its own: app/core/patterns/proxy_chain.py          *)
(***************************************************************************)
VARIABLES
    chain_log       \* the requests handed to real_handler and what came back

chainVars == <<chain_log>>

\* the requests explored: known, unknown and empty supplier ids, and a
\* request without the supplier_id key
ChainRequests ==
    { [supplier_id |-> s] : s \in {"SUP001", "SUP002", "SUP999", ""} }
        \cup { [region |-> "EU"] }

\* real_handler.handle(request)
handle_request(request) ==
    /\ Len(chain_log) < MaxChainLog
    /\ LET r == DataHandler_handle("real_handler", request)
       IN  chain_log' = Append(chain_log, [request |-> request, result |-> r.result,
                                           visited |-> r.visited])

InitChain == chain_log = <<>>

(***************************************************************************)
(* Exact arithmetic for the float computations: a number is <<n, d>> with  *)
(* d > 0 and n, d coprime.                                                 *)
(***************************************************************************)
Abs(n) == IF n < 0 THEN -n ELSE n

RECURSIVE GCD(_, _)
GCD(a, b) == IF b = 0 THEN a ELSE GCD(b, a % b)

\* n / d in lowest terms (d # 0)
Rat(n, d) ==
    LET g == GCD(Abs(n), Abs(d))
        s == IF d < 0 THEN -1 ELSE 1
    IN  <<(s * n) \div g, (s * d) \div g>>

Num(n) == <<n, 1>>
RAdd(x, y) == Rat(x[1] * y[2] + y[1] * x[2], x[2] * y[2])
RSub(x, y) == Rat(x[1] * y[2] - y[1] * x[2], x[2] * y[2])
RMul(x, y) == Rat(x[1] * y[1], x[2] * y[2])
RDiv(x, y) == Rat(x[1] * y[2], x[2] * y[1])
RLeq(x, y) == x[1] * y[2] <= y[1] * x[2]
RLess(x, y) == x[1] * y[2] < y[1] * x[2]
RMax(x, y) == IF RLeq(x, y) THEN y ELSE x
RMin(x, y) == IF RLeq(x, y) THEN x ELSE y

(***************************************************************************)
(* Component tree: app/core/patterns/composite.py                          *)
(***************************************************************************)
VARIABLES
    _children,      \* CompositeProduct._children of every composite
    tree_last       \* the last call on the component objects and its outcome

treeVars == <<_children, tree_last>>

\* the component objects the model works with
Leaves == {"L0", "L1", "L2"}
Composites == {"P1", "P2"}
Components == Leaves \cup Composites

\* SimpleComponent(...): the three leaves (L0 weighs nothing)
SimpleComponent(id) ==
    CASE id = "L0" ->
           [name |-> id, material |-> "pvc", weight_kg |-> Num(0),
            environmental_impact |-> Num(4),
            energy_consumption_mj |-> Num(10), water_usage_liters |-> Num(0),
            waste_generation_kg |-> Num(0), recyclability_score |-> Num(150),
            recycled_content_percentage |-> Num(150)]
      [] id = "L1" ->
           [name |-> id, material |-> "organic_cotton", weight_kg |-> Num(1),
            environmental_impact |-> Num(3),
            energy_consumption_mj |-> Num(20), water_usage_liters |-> Num(100),
            waste_generation_kg |-> Rat(1, 10), recyclability_score |-> Rat(3, 5),
            recycled_content_percentage |-> Rat(1, 2)]
      [] id = "L2" ->
           [name |-> id, material |-> "virgin_polyester", weight_kg |-> Num(3),
            environmental_impact |-> Num(5),
            energy_consumption_mj |-> Num(2000), water_usage_liters |-> Num(900),
            waste_generation_kg |-> Num(9), recyclability_score |-> Rat(4, 5),
            recycled_content_percentage |-> Num(30)]

\* SimpleComponent.get_impact_factors
SimpleComponent_get_impact_factors(id) ==
    LET c == SimpleComponent(id)
    IN  [energy |-> c.energy_consumption_mj,
         water |-> c.water_usage_liters,
         waste |-> c.waste_generation_kg,
         recyclability |-> c.recyclability_score,
         recycled_content |-> c.recycled_content_percentage,
         weight_kg |-> c.weight_kg]

\* the accumulators of CompositeProduct.get_impact_factors before the loop
ZeroTotals ==
    [total_energy |-> Num(0), total_water |-> Num(0), total_waste |-> Num(0),
     weighted_recyclability |-> Num(0), weighted_recycled_content |-> Num(0),
     total_weight |-> Num(0)]

\* mutant of AddChild: the factors are summed without the child's weight
AddChild_Unweighted(acc, factors) ==
    [total_energy |-> RAdd(acc.total_energy, factors.energy),
     total_water |-> RAdd(acc.total_water, factors.water),
     total_waste |-> RAdd(acc.total_waste, factors.waste),
     weighted_recyclability |-> RAdd(acc.weighted_recyclability, factors.recyclability),
     weighted_recycled_content |->
         RAdd(acc.weighted_recycled_content, factors.recycled_content),
     total_weight |-> RAdd(acc.total_weight, factors.weight_kg)]

\* one pass of the loop body for a child's factors
AddChild(acc, factors) ==
    LET w == factors.weight_kg
    IN  [total_energy |-> RAdd(acc.total_energy, factors.energy),
         total_water |-> RAdd(acc.total_water, factors.water),
         total_waste |-> RAdd(acc.total_waste, factors.waste),
         weighted_recyclability |->
             RAdd(acc.weighted_recyclability, RMul(factors.recyclability, w)),
         weighted_recycled_content |->
             RAdd(acc.weighted_recycled_content, RMul(factors.recycled_content, w)),
         total_weight |-> RAdd(acc.total_weight, w)]

\* mutant of Averages: a weightless product counts as fully recyclable
Averages_FallbackOne(acc) ==
    LET positive == RLess(Num(0), acc.total_weight)
    IN  [energy |-> acc.total_energy, water |-> acc.total_water, waste |-> acc.total_waste,
         recyclability |-> IF positive
                           THEN RDiv(acc.weighted_recyclability, acc.total_weight)
                           ELSE Num(1),
         recycled_content |-> IF positive
                              THEN RDiv(acc.weighted_recycled_content, acc.total_weight)
                              ELSE Num(1),
         weight_kg |-> acc.total_weight]

\* the part of CompositeProduct.get_impact_factors after the loop
Averages(acc) ==
    LET positive == RLess(Num(0), acc.total_weight)
    IN  [energy |-> acc.total_energy, water |-> acc.total_water, waste |-> acc.total_waste,
         recyclability |-> IF positive
                           THEN RDiv(acc.weighted_recyclability, acc.total_weight)
                           ELSE Num(0),
         recycled_content |-> IF positive
                              THEN RDiv(acc.weighted_recycled_content, acc.total_weight)
                              ELSE Num(0),
         weight_kg |-> acc.total_weight]

\* get_impact_factors of a component whose recursion ends
RECURSIVE ImpactFactors(_, _), AggregateChildren(_, _, _, _)
ImpactFactors(children, node) ==
    IF node \in Leaves
    THEN SimpleComponent_get_impact_factors(node)
    ELSE Averages(AggregateChildren(children, children[node], 1, ZeroTotals))

\* mutant of AggregateChildren: a child that is itself a composite is skipped
AggregateChildren_LeavesOnly(children, kids, i, acc) ==
    IF i > Len(kids) THEN acc
    ELSE AggregateChildren(children, kids, i + 1,
                           IF kids[i] \in Leaves
                           THEN AddChild(acc, ImpactFactors(children, kids[i]))
                           ELSE acc)

\* the loop of CompositeProduct.get_impact_factors from child i on
AggregateChildren(children, kids, i, acc) ==
    IF i > Len(kids) THEN acc
    ELSE AggregateChildren(children, kids, i + 1,
                           AddChild(acc, ImpactFactors(children, kids[i])))

\* the components below a node, found along the child lists
ChildSet(children, node) ==
    IF node \in Composites THEN { children[node][i] : i \in DOMAIN children[node] } ELSE {}

RECURSIVE Below(_, _, _)
Below(children, found, n) ==
    IF n = 0 THEN found
    ELSE Below(children, found \cup UNION { ChildSet(children, c) : c \in found }, n - 1)

Descendants(children, node) ==
    Below(children, ChildSet(children, node), Cardinality(Composites))

\* a recursive walk from the node never ends (Python raises RecursionError)
Diverges(children, node) ==
    \E q \in ({node} \cup Descendants(children, node)) \cap Composites :
        q \in Descendants(children, q)

\* ProductComponent.get_impact_factors
ProductComponent_get_impact_factors(children, node) ==
    IF Diverges(children, node)
    THEN [error |-> "RecursionError", factors |-> ZeroTotals]
    ELSE [error |-> "", factors |-> ImpactFactors(children, node)]

\* mutant of Visits: the composite is reported after its children
RECURSIVE Visits_PostOrder(_, _), VisitChildren_PostOrder(_, _, _)
Visits_PostOrder(children, node) ==
    IF node \in Leaves
    THEN << <<"visit_simple_component", node>> >>
    ELSE VisitChildren_PostOrder(children, children[node], 1)
             \o << <<"visit_composite_product", node>> >>

VisitChildren_PostOrder(children, kids, i) ==
    IF i > Len(kids) THEN <<>>
    ELSE Visits_PostOrder(children, kids[i])
             \o VisitChildren_PostOrder(children, kids, i + 1)

\* accept(visitor): the visitor methods called, in order
RECURSIVE Visits(_, _), VisitChildren(_, _, _)
Visits(children, node) ==
    IF node \in Leaves
    THEN << <<"visit_simple_component", node>> >>
    ELSE << <<"visit_composite_product", node>> >>
             \o VisitChildren(children, children[node], 1)

\* the loop of CompositeProduct.accept from child i on
VisitChildren(children, kids, i) ==
    IF i > Len(kids) THEN <<>>
    ELSE Visits(children, kids[i]) \o VisitChildren(children, kids, i + 1)

\* ProductComponent.accept with a visitor that records the calls it gets
ProductComponent_accept(children, node) ==
    IF Diverges(children, node)
    THEN [error |-> "RecursionError", visited |-> <<>>]
    ELSE [error |-> "", visited |-> Visits(children, node)]

\* mutant of CompositeProduct_add: a component already in the list is not added
CompositeProduct_add_Dedup(children, p, c) ==
    IF c \in ChildSet(children, p) THEN children
    ELSE [children EXCEPT ![p] = Append(@, c)]

\* CompositeProduct.add
CompositeProduct_add(children, p, c) == [children EXCEPT ![p] = Append(@, c)]

\* list.remove: the first occurrence goes
RECURSIVE RemoveFirst(_, _)
RemoveFirst(s, x) ==
    IF s = <<>> THEN <<>>
    ELSE IF Head(s) = x THEN Tail(s)
    ELSE <<Head(s)>> \o RemoveFirst(Tail(s), x)

\* CompositeProduct.remove: list.remove raises ValueError for a missing item
CompositeProduct_remove(children, p, c) ==
    IF c \in ChildSet(children, p)
    THEN [error |-> "", children |-> [children EXCEPT ![p] = RemoveFirst(@, c)]]
    ELSE [error |-> "ValueError", children |-> children]

\* the number of child entries in all lists
RECURSIVE EdgeCount(_, _)
EdgeCount(children, ps) ==
    IF ps = {} THEN 0
    ELSE LET p == CHOOSE q \in ps : TRUE
         IN  Len(children[p]) + EdgeCount(children, ps \ {p})

\* p.add(c)
add(p, c, limit) ==
    /\ EdgeCount(_children, Composites) < limit
    /\ _children' = CompositeProduct_add(_children, p, c)
    /\ tree_last' = [op |-> "add", node |-> p, error |-> ""]

\* p.remove(c)
remove(p, c) ==
    LET r == CompositeProduct_remove(_children, p, c)
    IN  /\ _children' = r.children
        /\ tree_last' = [op |-> "remove", node |-> p, error |-> r.error]

\* node.get_impact_factors()
get_impact_factors(node) ==
    LET r == ProductComponent_get_impact_factors(_children, node)
    IN  /\ tree_last' = [op |-> "get_impact_factors", node |-> node,
                         error |-> r.error, factors |-> r.factors]
        /\ UNCHANGED _children

\* node.accept(visitor)
accept(node) ==
    LET r == ProductComponent_accept(_children, node)
    IN  /\ tree_last' = [op |-> "accept", node |-> node,
                         error |-> r.error, visited |-> r.visited]
        /\ UNCHANGED _children

\* mutant of CompositeProduct_get_children: the internal list itself is returned
CompositeProduct_get_children_NoCopy(children, p) ==
    [items |-> children[p], shares |-> p]

\* CompositeProduct.get_children: a new list with the same items, which shares
\* its storage with no composite's _children
CompositeProduct_get_children(children, p) ==
    [items |-> children[p], shares |-> "none"]

\* p.get_children()
get_children(p) ==
    /\ tree_last' = [op |-> "get_children", node |-> p, error |-> "",
                     returned |-> CompositeProduct_get_children(_children, p)]
    /\ UNCHANGED _children

\* the caller changes the list it just got; a composite's _children changes
\* with it only when the two are one list object
MutateReturned(op, items, error) ==
    LET r == tree_last.returned
    IN  /\ tree_last.op = "get_children"
        /\ tree_last' = [op |-> op, node |-> tree_last.node, error |-> error,
                         returned |-> [items |-> items, shares |-> r.shares]]
        /\ _children' = IF r.shares = "none" THEN _children
                        ELSE [_children EXCEPT ![r.shares] = items]

\* returned.clear()
list_clear == MutateReturned("list_clear", <<>>, "")

\* returned.append(c)
list_append(c) ==
    /\ tree_last.op = "get_children"
    /\ MutateReturned("list_append", Append(tree_last.returned.items, c), "")

\* returned.remove(c)
list_remove(c) ==
    /\ tree_last.op = "get_children"
    /\ LET items == tree_last.returned.items
       IN  IF \E i \in DOMAIN items : items[i] = c
           THEN MutateReturned("list_remove", RemoveFirst(items, c), "")
           ELSE MutateReturned("list_remove", items, "ValueError")

(***************************************************************************)
(* Scoring strategies: app/core/patterns/strategy.py                       *)
(***************************************************************************)
\* round(x, 2): the nearest hundredth, a tie going to the even one
Round2(x) ==
    LET n == x[1] * 100
        q == n \div x[2]
        r == n - q * x[2]
    IN  IF 2 * r < x[2] THEN Rat(q, 100)
        ELSE IF 2 * r > x[2] THEN Rat(q + 1, 100)
        ELSE IF q % 2 = 0 THEN Rat(q, 100)
        ELSE Rat(q + 1, 100)

\* weight_kg = factors.get("weight_kg", 1.0); if weight_kg <= 0: weight_kg = 1.0
ScoringWeight(factors) ==
    IF RLeq(factors.weight_kg, Num(0)) THEN Num(1) ELSE factors.weight_kg

\* mutant of SubScore: the sub-score has no floor at 0
SubScore_NoFloor(per_kg, max) ==
    RSub(Num(100), RMul(RDiv(per_kg, max), Num(100)))

\* max(0, 100 - (per_kg / MAX * 100))
SubScore(per_kg, max) ==
    RMax(Num(0), RSub(Num(100), RMul(RDiv(per_kg, max), Num(100))))

\* HiggIndexStrategy.calculate_score, from the component's factors
HiggIndexStrategy_calculate_score(factors) ==
    LET weight_kg == ScoringWeight(factors)
        energy_per_kg == RDiv(factors.energy, weight_kg)
        water_per_kg == RDiv(factors.water, weight_kg)
        co2_per_kg == RMul(energy_per_kg, Rat(15, 100))
        co2_score == SubScore(co2_per_kg, Num(15))
        water_score == SubScore(water_per_kg, Num(500))
        energy_score == SubScore(energy_per_kg, Num(100))
        final_score == RAdd(RAdd(RMul(co2_score, Rat(45, 100)),
                                 RMul(water_score, Rat(30, 100))),
                            RMul(energy_score, Rat(25, 100)))
    IN  Round2(final_score)

\* max(0, min(100, x))
Clamp(x) == RMax(Num(0), RMin(Num(100), x))

\* CarbonFootprintStrategy.calculate_score
CarbonFootprintStrategy_calculate_score(factors) ==
    LET weight_kg == ScoringWeight(factors)
        energy_per_kg == RDiv(factors.energy, weight_kg)
        co2_per_kg == RMul(energy_per_kg, Rat(15, 100))
        total_penalty == RMul(co2_per_kg, Num(12))
        final_score == RSub(Num(100), total_penalty)
    IN  Round2(Clamp(final_score))

\* x * 100 if x <= 1 else x
Normalize(x) == IF RLeq(x, Num(1)) THEN RMul(x, Num(100)) ELSE x

\* CircularEconomyStrategy.calculate_score
CircularEconomyStrategy_calculate_score(factors) ==
    LET weight_kg == ScoringWeight(factors)
        waste_per_kg == RDiv(factors.waste, weight_kg)
        recyclability_norm == Normalize(factors.recyclability)
        content_norm == Normalize(factors.recycled_content)
        base_circularity_score ==
            RAdd(RMul(content_norm, Rat(1, 2)), RMul(recyclability_norm, Rat(1, 2)))
        waste_score == SubScore(waste_per_kg, Num(2))
        final_score == RAdd(RMul(base_circularity_score, Rat(6, 10)),
                            RMul(waste_score, Rat(4, 10)))
    IN  Round2(Clamp(final_score))

\* STRATEGY_MAP without the custom strategy
FixedStrategies == {"higg_index", "carbon_footprint", "circular_economy"}

\* ScoringContext.calculate: the chosen strategy's calculate_score
ScoringContext_calculate(strategy, factors) ==
    CASE strategy = "higg_index" -> HiggIndexStrategy_calculate_score(factors)
      [] strategy = "carbon_footprint" -> CarbonFootprintStrategy_calculate_score(factors)
      [] strategy = "circular_economy" -> CircularEconomyStrategy_calculate_score(factors)

\* ScoringContext(strategy).calculate(node)
calculate_score(strategy, node) ==
    LET r == ProductComponent_get_impact_factors(_children, node)
    IN  /\ tree_last' = [op |-> "calculate_score", node |-> node, error |-> r.error,
                         strategy |-> strategy,
                         score |-> IF r.error = "" THEN ScoringContext_calculate(strategy, r.factors)
                                   ELSE Num(0)]
        /\ UNCHANGED _children

\* weight mappings a client may pass to CustomStrategy
CustomWeights ==
    { [energy |-> Rat(1, 10)],
      [energy |-> Rat(1, 2), water |-> Rat(1, 10), waste |-> Num(1)],
      [recyclability |-> Num(100), recycled_content |-> Num(100)] }

\* CustomStrategy.calculate_score: 100 minus the weighted per-kg impacts plus
\* the weighted recycling figures, returned as it is
CustomStrategy_calculate_score(weights, factors) ==
    LET weight == factors.weight_kg
        weight_kg == IF RLess(Num(0), weight) THEN weight ELSE Num(1)
        w(key) == request_get(weights, key, Num(0))
        energy_impact == RMul(RDiv(factors.energy, weight_kg), w("energy"))
        water_impact == RMul(RDiv(factors.water, weight_kg), w("water"))
        waste_impact == RMul(RDiv(factors.waste, weight_kg), w("waste"))
        penalised == RSub(Num(100), RAdd(RAdd(energy_impact, water_impact), waste_impact))
        with_recyclability == RAdd(penalised, RMul(factors.recyclability, w("recyclability")))
    IN  IF RLeq(weight_kg, Num(0)) THEN Num(0)
        ELSE RAdd(with_recyclability, RMul(factors.recycled_content, w("recycled_content")))

\* ScoringContext(CustomStrategy(weights)).calculate(node)
calculate_custom_score(weights, node) ==
    LET r == ProductComponent_get_impact_factors(_children, node)
    IN  /\ tree_last' = [op |-> "calculate_custom_score", node |-> node, error |-> r.error,
                         weights |-> weights,
                         score |-> IF r.error = ""
                                   THEN CustomStrategy_calculate_score(weights, r.factors)
                                   ELSE Num(0)]
        /\ UNCHANGED _children

InitTree ==
    /\ _children = [p \in Composites |-> <<>>]
    /\ tree_last = [op |-> "none", node |-> "", error |-> ""]

(***************************************************************************)
(* Badge decorators: app/core/patterns/decorator.py                        *)
(***************************************************************************)
VARIABLES
    dec_base,       \* the undecorated component the innermost badge wraps
    decorators,     \* the badge objects, innermost first; each wraps the one before
    dec_last        \* the last call on the outermost object and its outcome

decVars == <<dec_base, decorators, dec_last>>

\* BADGE_MAP: the concrete decorator classes
BadgeClasses == {"FairTradeBadge", "VeganBadge", "OekoTexBadge", "NonCompliantBadge"}

\* SCORE_BONUS / SCORE_PENALTY of each class, returned by get_score_modifier
get_score_modifier(class) ==
    CASE class = "FairTradeBadge" -> -5
      [] class = "VeganBadge" -> -3
      [] class = "OekoTexBadge" -> -4
      [] class = "NonCompliantBadge" -> 10

\* name, material and weight_kg as ProductComponent.__init__ stores them
ProductComponent_init(node) ==
    IF node \in Leaves
    THEN [name |-> SimpleComponent(node).name,
          material |-> SimpleComponent(node).material,
          weight_kg |-> SimpleComponent(node).weight_kg]
    ELSE [name |-> node, material |-> "composite", weight_kg |-> Num(0)]

\* ProductDecorator.__init__: copies the wrapped object's three attributes and
\* keeps a reference to it (0 is the base, i the i-th badge)
ProductDecorator_init(class, attrs, wrapped) ==
    [class |-> class, name |-> attrs.name, material |-> attrs.material,
     weight_kg |-> attrs.weight_kg, _wrapped |-> wrapped]

\* mutant of ProductDecorator_get_impact_factors: the badge reports the
\* weight_kg attribute it copied at construction
RECURSIVE ProductDecorator_get_impact_factors(_, _, _, _)
ProductDecorator_get_impact_factors_OwnWeight(children, base, decs, ref) ==
    IF ref = 0 THEN ProductComponent_get_impact_factors(children, base)
    ELSE LET r == ProductDecorator_get_impact_factors(children, base, decs, decs[ref]._wrapped)
         IN  [r EXCEPT !.factors.weight_kg = decs[ref].weight_kg]

\* ProductDecorator.get_impact_factors: delegates to the wrapped object
ProductDecorator_get_impact_factors(children, base, decs, ref) ==
    IF ref = 0 THEN ProductComponent_get_impact_factors(children, base)
    ELSE ProductDecorator_get_impact_factors(children, base, decs, decs[ref]._wrapped)

\* ProductDecorator.accept: delegates to the wrapped object
RECURSIVE ProductDecorator_accept(_, _, _, _)
ProductDecorator_accept(children, base, decs, ref) ==
    IF ref = 0 THEN ProductComponent_accept(children, base)
    ELSE ProductDecorator_accept(children, base, decs, decs[ref]._wrapped)

\* mutant of WalkChain: the walk stops at the first badge of a class seen before
RECURSIVE WalkChain(_, _, _)
WalkChain_SkipRepeated(decs, ref, acc) ==
    IF ref = 0 THEN acc
    ELSE IF \E i \in DOMAIN acc.walked : decs[acc.walked[i]].class = decs[ref].class
    THEN WalkChain(decs, decs[ref]._wrapped, acc)
    ELSE WalkChain(decs, decs[ref]._wrapped,
                   [total_modifier |-> acc.total_modifier + get_score_modifier(decs[ref].class),
                    walked |-> Append(acc.walked, ref)])

\* while isinstance(current, ProductDecorator): add its modifier, go to _wrapped
WalkChain(decs, ref, acc) ==
    IF ref = 0 THEN acc
    ELSE WalkChain(decs, decs[ref]._wrapped,
                   [total_modifier |-> acc.total_modifier + get_score_modifier(decs[ref].class),
                    walked |-> Append(acc.walked, ref)])

\* Badge(outermost), or Badge(node) when nothing is decorated yet
decorate(class, node) ==
    /\ Len(decorators) < MaxBadges
    /\ IF decorators = <<>>
       THEN /\ dec_base' = node
            /\ decorators' = <<ProductDecorator_init(class, ProductComponent_init(node), 0)>>
       ELSE /\ node = dec_base
            /\ dec_base' = dec_base
            /\ decorators' = Append(decorators,
                   ProductDecorator_init(class, decorators[Len(decorators)], Len(decorators)))
    /\ dec_last' = [op |-> "decorate"]
    /\ UNCHANGED treeVars

\* outermost.get_impact_factors()
decorated_get_impact_factors ==
    /\ decorators # <<>>
    /\ dec_last' = [op |-> "get_impact_factors",
                    result |-> ProductDecorator_get_impact_factors(
                                   _children, dec_base, decorators, Len(decorators))]
    /\ UNCHANGED <<dec_base, decorators, treeVars>>

\* outermost.accept(visitor)
decorated_accept ==
    /\ decorators # <<>>
    /\ dec_last' = [op |-> "accept",
                    result |-> ProductDecorator_accept(
                                   _children, dec_base, decorators, Len(decorators))]
    /\ UNCHANGED <<dec_base, decorators, treeVars>>

\* the total modifier of the chain, from the outermost badge inwards
total_modifier ==
    /\ decorators # <<>>
    /\ dec_last' = [op |-> "total_modifier",
                    result |-> WalkChain(decorators, Len(decorators),
                                         [total_modifier |-> 0, walked |-> <<>>])]
    /\ UNCHANGED <<dec_base, decorators, treeVars>>

InitDecorator ==
    /\ dec_base = "none"
    /\ decorators = <<>>
    /\ dec_last = [op |-> "none"]

\* component trees built beforehand with add(), as inputs for the badge checks
SampleTrees ==
    { [P1 |-> <<>>, P2 |-> <<>>],
      [P1 |-> <<"L1", "L2">>, P2 |-> <<"L0">>],
      [P1 |-> <<"P2", "L2">>, P2 |-> <<"L1">>] }

(***************************************************************************)
(* Product creation: app/api/products.py                                   *)
(***************************************************************************)
VARIABLES
    products_cache,     \* products_cache: what create_product stored, by product id
    prod_last           \* the last create_product request and its response

prodVars == <<products_cache, prod_last>>

\* BADGE_MAP
BADGE_MAP ==
    [fairtrade |-> "FairTradeBadge", vegan |-> "VeganBadge",
     oekotex |-> "OekoTexBadge", non_compliant |-> "NonCompliantBadge"]

\* badge identifiers a client may send; "organic" is not a known one
BadgeKeys == {"vegan", "non_compliant", "organic"}

\* ProductCreate.badges: lists of up to two identifiers
BadgeLists == {<<>>} \cup { <<a>> : a \in BadgeKeys } \cup (BadgeKeys \X BadgeKeys)

\* ProductCreate.components: the leaves of the new product
ComponentLists == { <<"L1">>, <<"L1", "L2">>, <<"L0">> }

\* round(x, 1)
Round1(x) ==
    LET n == x[1] * 10
        q == n \div x[2]
        r == n - q * x[2]
    IN  IF 2 * r < x[2] THEN Rat(q, 10)
        ELSE IF 2 * r > x[2] THEN Rat(q + 1, 10)
        ELSE IF q % 2 = 0 THEN Rat(q, 10)
        ELSE Rat(q + 1, 10)

RECURSIVE ApplyBadges(_, _, _)
\* the badge loop of create_product from the i-th identifier on: a known
\* identifier wraps the product so far, any other is passed over
ApplyBadges(badges, i, decs) ==
    IF i > Len(badges) THEN decs
    ELSE IF badges[i] \in DOMAIN BADGE_MAP
    THEN ApplyBadges(badges, i + 1,
             Append(decs, ProductDecorator_init(BADGE_MAP[badges[i]],
                              IF decs = <<>> THEN ProductComponent_init("P1")
                              ELSE decs[Len(decs)], Len(decs))))
    ELSE ApplyBadges(badges, i + 1, decs)

\* POST /products: build the composite, wrap it in the badges, cache it, score it
create_product(components, badges) ==
    LET id == Len(products_cache) + 1
        children == [P1 |-> components, P2 |-> <<>>]
        decs == ApplyBadges(badges, 1, <<>>)
        factors == ProductDecorator_get_impact_factors(children, "P1", decs, Len(decs)).factors
        higg_score == HiggIndexStrategy_calculate_score(factors)
        carbon_score == CarbonFootprintStrategy_calculate_score(factors)
        circular_score == CircularEconomyStrategy_calculate_score(factors)
        average_score ==
            Round1(RDiv(RAdd(RAdd(higg_score, carbon_score), circular_score), Num(3)))
    IN  /\ Len(products_cache) < MaxProducts
        /\ products_cache' = Append(products_cache,
               [components |-> components, decorators |-> decs])
        /\ prod_last' = [op |-> "create_product", badges |-> badges, status |-> 200,
                         id |-> id, average_score |-> average_score]

InitProducts ==
    /\ products_cache = <<>>
    /\ prod_last = [op |-> "none"]

(***************************************************************************)
(* Observer: app/core/patterns/observer.py                                 *)
(***************************************************************************)
VARIABLES
    _observers,         \* WeightConfigSubject._observers
    _weights,           \* WeightConfigSubject._weights: the dict it refers to
    _current_weights,   \* ScoringModule._current_weights of each observer: a reference
    caller_mapping,     \* the content of the dict the caller keeps and changes
    detached_weights,   \* what each detached observer reported when it was detached
    obs_last            \* the last call and its outcome

obsVars == <<_observers, _weights, _current_weights, caller_mapping,
             detached_weights, obs_last>>

\* ScoringModule(...) objects
Observers == {"module1", "module2"}

\* weight mappings passed as new dict objects
FreshWeights == { [carbon_footprint |-> 1], [carbon_footprint |-> 2, water_usage |-> 1] }

\* values the caller writes into its own mapping
CallerValues == {1, 2}

\* a reference to a dict nobody else changes, or to the caller's own dict
OwnDict(weights) == [object |-> "own", content |-> weights]
CallerDict == [object |-> "caller_mapping", content |-> <<>>]

\* the content of the dict a reference points to, given the caller's dict
Deref(ref, mapping) == IF ref.object = "own" THEN ref.content ELSE mapping

\* mutant of WeightConfigSubject_attach: without the membership test
WeightConfigSubject_attach_NoCheck(observers, observer) == Append(observers, observer)

\* WeightConfigSubject.attach
WeightConfigSubject_attach(observers, observer) ==
    IF \E i \in DOMAIN observers : observers[i] = observer
    THEN observers
    ELSE Append(observers, observer)

\* WeightConfigSubject.detach: list.remove
WeightConfigSubject_detach(observers, observer) ==
    IF \E i \in DOMAIN observers : observers[i] = observer
    THEN [error |-> "", observers |-> RemoveFirst(observers, observer)]
    ELSE [error |-> "ValueError", observers |-> observers]

\* WeightConfigSubject.notify from the i-th observer on: each is handed the
\* subject's reference; calls lists the observers called so far
RECURSIVE WeightConfigSubject_notify(_, _, _, _)
WeightConfigSubject_notify(observers, ref, i, acc) ==
    IF i > Len(observers) THEN acc
    ELSE WeightConfigSubject_notify(observers, ref, i + 1,
             [current |-> [acc.current EXCEPT ![observers[i]] = ref],
              calls |-> Append(acc.calls, observers[i])])

\* WeightConfigSubject.set_weights(weights), weights given as a reference
WeightConfigSubject_set_weights(ref) ==
    LET r == WeightConfigSubject_notify(_observers, ref, 1,
                 [current |-> _current_weights, calls |-> <<>>])
    IN  /\ _weights' = ref
        /\ _current_weights' = r.current
        /\ obs_last' = [op |-> "set_weights", calls |-> r.calls]
        /\ UNCHANGED <<_observers, detached_weights>>

\* subject.attach(observer)
subject_attach(observer) ==
    /\ Len(_observers) < MaxAttached
    /\ _observers' = WeightConfigSubject_attach(_observers, observer)
    /\ detached_weights' = [detached_weights EXCEPT ![observer] = None]
    /\ obs_last' = [op |-> "attach", observer |-> observer,
                    already |-> \E i \in DOMAIN _observers : _observers[i] = observer]
    /\ UNCHANGED <<_weights, _current_weights, caller_mapping>>

\* subject.detach(observer)
subject_detach(observer) ==
    LET r == WeightConfigSubject_detach(_observers, observer)
    IN  /\ _observers' = r.observers
        /\ detached_weights' =
               IF r.error = ""
               THEN [detached_weights EXCEPT
                        ![observer] = Some(Deref(_current_weights[observer], caller_mapping))]
               ELSE detached_weights
        /\ obs_last' = [op |-> "detach", observer |-> observer, error |-> r.error]
        /\ UNCHANGED <<_weights, _current_weights, caller_mapping>>

\* subject.set_weights({...}) with a new dict
subject_set_weights(weights) ==
    /\ WeightConfigSubject_set_weights(OwnDict(weights))
    /\ UNCHANGED caller_mapping

\* the caller writes into its own dict and passes that dict, as update_weights
\* does with weights_store
caller_resubmit(criterion, new_weight) ==
    /\ caller_mapping' = dict_set(caller_mapping, criterion, new_weight)
    /\ WeightConfigSubject_set_weights(CallerDict)

\* observer.get_current_weights()
observer_get_current_weights(observer) ==
    /\ obs_last' = [op |-> "get_current_weights", observer |-> observer,
                    weights |-> Deref(_current_weights[observer], caller_mapping)]
    /\ UNCHANGED <<_observers, _weights, _current_weights, caller_mapping, detached_weights>>

InitObserver ==
    /\ _observers = <<>>
    /\ _weights = OwnDict(<<>>)
    /\ _current_weights = [o \in Observers |-> OwnDict(<<>>)]
    /\ caller_mapping = <<>>
    /\ detached_weights = [o \in Observers |-> None]
    /\ obs_last = [op |-> "none"]

(***************************************************************************)
(* Builder: app/core/patterns/builder.py                                   *)
(***************************************************************************)
VARIABLES
    _product,           \* SustainableProductBuilder._product: None or a product object
    builder_products,   \* the CompositeProduct objects the builder created, by identity
    builder_returned,   \* the children each product had when build() returned it
    builder_last        \* the last builder call and its outcome

bldVars == <<_product, builder_products, builder_returned, builder_last>>

\* product names a caller may pass
BuilderNames == {"Jacket", "Shirt"}

\* the three add_* methods
AddMethods == {"add_fabric", "add_lining", "add_accessory"}

\* start_new_product: a new CompositeProduct(name), which the builder now holds
SustainableProductBuilder_start_new_product(products, name) ==
    [products |-> Append(products, [name |-> name, _children |-> <<>>]),
     product |-> Some(Len(products) + 1)]

\* add_fabric / add_lining / add_accessory: the same body in all three
SustainableProductBuilder_add(product, products, component) ==
    IF product = None
    THEN [error |-> "BuilderError", products |-> products]
    ELSE [error |-> "",
          products |-> [products EXCEPT ![product[1]]._children = Append(@, component)]]

\* mutant of SustainableProductBuilder_build: the builder keeps the product
SustainableProductBuilder_build_NoReset(product) ==
    IF product = None
    THEN [error |-> "BuilderError", result |-> None, product |-> product]
    ELSE [error |-> "", result |-> product, product |-> product]

\* build: hands out the product and forgets it
SustainableProductBuilder_build(product) ==
    IF product = None
    THEN [error |-> "BuilderError", result |-> None, product |-> product]
    ELSE [error |-> "", result |-> product, product |-> None]

\* the number of components over all products the builder created
RECURSIVE BuilderComponents(_)
BuilderComponents(products) ==
    IF products = <<>> THEN 0
    ELSE Len(Head(products)._children) + BuilderComponents(Tail(products))

\* builder.start_new_product(name)
start_new_product(name) ==
    LET r == SustainableProductBuilder_start_new_product(builder_products, name)
    IN  /\ Len(builder_products) < MaxProducts
        /\ builder_products' = r.products
        /\ _product' = r.product
        /\ builder_last' = [op |-> "start_new_product", error |-> ""]
        /\ UNCHANGED builder_returned

\* builder.add_fabric(...), builder.add_lining(...), builder.add_accessory(...)
builder_add(method, name) ==
    LET component == [name |-> name, method |-> method]
        r == SustainableProductBuilder_add(_product, builder_products, component)
    IN  /\ BuilderComponents(builder_products) < MaxEdges
        /\ builder_products' = r.products
        /\ builder_last' = [op |-> method, error |-> r.error]
        /\ UNCHANGED <<_product, builder_returned>>

\* builder.build()
build ==
    LET r == SustainableProductBuilder_build(_product)
    IN  /\ _product' = r.product
        /\ builder_returned' =
               IF r.error = ""
               THEN dict_set(builder_returned, r.result[1],
                             builder_products[r.result[1]]._children)
               ELSE builder_returned
        /\ builder_last' = [op |-> "build", error |-> r.error]
        /\ UNCHANGED builder_products

InitBuilder ==
    /\ _product = None
    /\ builder_products = <<>>
    /\ builder_returned = <<>>
    /\ builder_last = [op |-> "none", error |-> ""]

(***************************************************************************)
(* Concurrent configuration requests: the handlers of app/api/config.py    *)
(* run in worker threads, one statement of CommandHistory at a time        *)
(***************************************************************************)
VARIABLES
    threads,            \* each worker thread: its request, position, locals, outcome
    requests_started    \* how many requests the threads have taken up

concVars == <<threads, requests_started>>

\* worker threads serving config requests
Threads == {"t1", "t2"}

\* a thread with no request
IdleThread == [op |-> "idle", pc |-> "idle", command |-> None, ok |-> FALSE, error |-> ""]

\* the parts of the config module a CommandHistory statement leaves alone
HistoryRest == <<cmd_now, cmd_last, cmd_read, undo_since_execute>>

\* thread t moves to position pc with the given local command
Goto(t, pc, command) ==
    threads' = [threads EXCEPT ![t].pc = pc, ![t].command = command]

\* thread t ends its request: the value returned or the exception raised
Finish(t, ok, error) ==
    threads' = [threads EXCEPT ![t].pc = "done", ![t].ok = ok, ![t].error = error]

\* a thread takes up PUT /weights (one item), POST /weights/undo or /weights/redo
start_request(t, op, criterion, new_weight) ==
    /\ threads[t].pc \in {"idle", "done"}
    /\ requests_started < MaxRequests
    /\ op = "update" => Len(_history) < MaxHistory
    /\ requests_started' = requests_started + 1
    /\ threads' = [threads EXCEPT ![t] =
           [op |-> op, pc |-> op \o "_begin",
            command |-> IF op = "update"
                        THEN Some(UpdateWeightCommand(criterion, new_weight))
                        ELSE None,
            ok |-> FALSE, error |-> ""]]
    /\ UNCHANGED <<weights_store, _history, _undo_stack, subject_weights, module_weights,
                   HistoryRest>>

\* CommandHistory.undo: if not self._history: return False
undo_check(t) ==
    /\ threads[t].pc = "undo_begin"
    /\ IF _history = <<>> THEN Finish(t, FALSE, "") ELSE Goto(t, "undo_pop", None)
    /\ UNCHANGED <<weights_store, _history, _undo_stack, subject_weights, module_weights,
                   HistoryRest, requests_started>>

\* CommandHistory.undo: command, _ = self._history.pop()
undo_pop(t) ==
    /\ threads[t].pc = "undo_pop"
    /\ IF _history = <<>>
       THEN Finish(t, FALSE, "IndexError") /\ UNCHANGED _history
       ELSE /\ Goto(t, "undo_command", Some(_history[Len(_history)][1]))
            /\ _history' = ButLast(_history)
    /\ UNCHANGED <<weights_store, _undo_stack, subject_weights, module_weights,
                   HistoryRest, requests_started>>

\* CommandHistory.undo: command.undo()
undo_command(t) ==
    /\ threads[t].pc = "undo_command"
    /\ LET r == UpdateWeightCommand_undo(weights_store, threads[t].command[1])
       IN  /\ weights_store' = r.config
           /\ IF r.error # "" THEN Finish(t, FALSE, r.error)
              ELSE Goto(t, "undo_push", threads[t].command)
    /\ UNCHANGED <<_history, _undo_stack, subject_weights, module_weights,
                   HistoryRest, requests_started>>

\* CommandHistory.undo: self._undo_stack.append(command); return True
undo_push(t) ==
    /\ threads[t].pc = "undo_push"
    /\ _undo_stack' = Append(_undo_stack, threads[t].command[1])
    /\ Goto(t, "notify", None)
    /\ UNCHANGED <<weights_store, _history, subject_weights, module_weights,
                   HistoryRest, requests_started>>

\* CommandHistory.redo: if not self._undo_stack: return False
redo_check(t) ==
    /\ threads[t].pc = "redo_begin"
    /\ IF _undo_stack = <<>> THEN Finish(t, FALSE, "") ELSE Goto(t, "redo_pop", None)
    /\ UNCHANGED <<weights_store, _history, _undo_stack, subject_weights, module_weights,
                   HistoryRest, requests_started>>

\* CommandHistory.redo: command = self._undo_stack.pop()
redo_pop(t) ==
    /\ threads[t].pc = "redo_pop"
    /\ IF _undo_stack = <<>>
       THEN Finish(t, FALSE, "IndexError") /\ UNCHANGED _undo_stack
       ELSE /\ Goto(t, "redo_command", Some(_undo_stack[Len(_undo_stack)]))
            /\ _undo_stack' = ButLast(_undo_stack)
    /\ UNCHANGED <<weights_store, _history, subject_weights, module_weights,
                   HistoryRest, requests_started>>

\* command.execute(), in CommandHistory.redo and CommandHistory.execute
command_execute(t) ==
    /\ threads[t].pc \in {"redo_command", "update_begin"}
    /\ LET r == UpdateWeightCommand_execute(weights_store, threads[t].command[1])
       IN  /\ weights_store' = r.config
           /\ Goto(t, threads[t].op \o "_append", Some(r.command))
    /\ UNCHANGED <<_history, _undo_stack, subject_weights, module_weights,
                   HistoryRest, requests_started>>

\* self._history.append((command, datetime.now()))
history_append(t) ==
    /\ threads[t].pc \in {"redo_append", "update_append"}
    /\ _history' = Append(_history, <<threads[t].command[1], cmd_now>>)
    /\ Goto(t, IF threads[t].op = "update" THEN "update_clear" ELSE "notify", None)
    /\ UNCHANGED <<weights_store, _undo_stack, subject_weights, module_weights,
                   HistoryRest, requests_started>>

\* CommandHistory.execute: self._undo_stack.clear()
undo_stack_clear(t) ==
    /\ threads[t].pc = "update_clear"
    /\ _undo_stack' = <<>>
    /\ Goto(t, "notify", None)
    /\ UNCHANGED <<weights_store, _history, subject_weights, module_weights,
                   HistoryRest, requests_started>>

\* weight_config.set_weights(weights_store) and the response
notify_and_return(t) ==
    /\ threads[t].pc = "notify"
    /\ set_weights
    /\ Finish(t, TRUE, "")
    /\ UNCHANGED <<weights_store, _history, _undo_stack, HistoryRest, requests_started>>

InitConcurrent ==
    /\ threads = [t \in Threads |-> IdleThread]
    /\ requests_started = 0

(***************************************************************************)
(* Concurrent scorecard requests: the transition handlers of               *)
(* app/api/scorecards.py run in worker threads                             *)
(***************************************************************************)
VARIABLES
    sc_threads,            \* each worker thread: its request, position, locals, response
    sc_requests_started,   \* how many transition requests the threads have taken up
    certify_succeeded      \* history: ids of the scorecards a certify request succeeded on

scThreadVars == <<sc_threads, sc_requests_started, certify_succeeded>>

\* a thread with no scorecard request
IdleScorecardThread ==
    [event |-> "none", id |-> 0, pc |-> "idle", state |-> "none",
     status |-> 0, response_state |-> "none"]

\* the method of the state object a thread holds, called on the scorecard
StateMethod(state, event, scorecard) ==
    CASE state = "DraftState" -> DraftState(event, scorecard)
      [] state = "InReviewState" -> InReviewState(event, scorecard)
      [] state = "CertifiedState" -> CertifiedState(event, scorecard)
      [] state = "DeprecatedState" -> DeprecatedState(event, scorecard)

\* a thread takes up a transition request: the lookup in scorecards_db
transition_request(t, event, scorecard_id) ==
    /\ sc_threads[t].pc \in {"idle", "done"}
    /\ sc_requests_started < MaxRequests
    /\ sc_requests_started' = sc_requests_started + 1
    /\ sc_threads' = [sc_threads EXCEPT ![t] =
           IF scorecard_id \notin DOMAIN scorecards_db
           THEN [event |-> event, id |-> scorecard_id, pc |-> "done", state |-> "none",
                 status |-> 404, response_state |-> "none"]
           ELSE [event |-> event, id |-> scorecard_id, pc |-> "load", state |-> "none",
                 status |-> 0, response_state |-> "none"]]
    /\ UNCHANGED <<scVars, certify_succeeded>>

\* Scorecard.edit / submit_for_review / certify / deprecate: the read of self._state
load_state(t) ==
    /\ sc_threads[t].pc = "load"
    /\ sc_threads' = [sc_threads EXCEPT ![t].pc = "call",
                                        ![t].state = scorecards_db[sc_threads[t].id]._state]
    /\ UNCHANGED <<scVars, sc_requests_started, certify_succeeded>>

\* the state object's method: scorecard.set_state(...) or raise
state_method(t) ==
    /\ sc_threads[t].pc = "call"
    /\ LET th == sc_threads[t]
           r == StateMethod(th.state, th.event, scorecards_db[th.id])
       IN  /\ scorecards_db' = [scorecards_db EXCEPT ![th.id] = r.scorecard]
           /\ sc_threads' = [sc_threads EXCEPT ![t].pc = IF r.error # "" THEN "done" ELSE "respond",
                                               ![t].status = IF r.error # "" THEN 400 ELSE 0]
           /\ certify_succeeded' = IF r.error = "" /\ th.event = "certify"
                                   THEN certify_succeeded \cup {th.id}
                                   ELSE certify_succeeded
    /\ UNCHANGED <<sc_last, sc_requests_started>>

\* return ScorecardResponse(..., state=scorecard.get_state_name())
transition_response(t) ==
    /\ sc_threads[t].pc = "respond"
    /\ sc_threads' = [sc_threads EXCEPT ![t].pc = "done", ![t].status = 200,
                          ![t].response_state = get_state_name(scorecards_db[sc_threads[t].id])]
    /\ UNCHANGED <<scVars, sc_requests_started, certify_succeeded>>

InitScorecardThreads ==
    /\ sc_threads = [t \in Threads |-> IdleScorecardThread]
    /\ sc_requests_started = 0
    /\ certify_succeeded = {}

(***************************************************************************)
(* Report visitor: app/core/patterns/visitor.py                            *)
(***************************************************************************)
VARIABLES
    products,             \* PdfReportVisitor.products: the records, in order
    _current_product,     \* PdfReportVisitor._current_product: index of the record in
                          \* products it refers to, 0 for None
    composites_visited,   \* history: the composites visited so far, in order
    vis_last              \* the last traversal and where its records begin

visVars == <<products, _current_product, composites_visited, vis_last>>

\* the visitor object: its two attributes
PdfReportVisitor(records, current) == [products |-> records, _current_product |-> current]

\* PdfReportVisitor.visit_simple_component
PdfReportVisitor_visit_simple_component(visitor, component) ==
    IF visitor._current_product = 0 THEN visitor
    ELSE [visitor EXCEPT !.products[visitor._current_product].components =
                             Append(@, component)]

\* mutant of visit_composite_product: a product already recorded is not recorded again
PdfReportVisitor_visit_composite_product_Once(children, visitor, product) ==
    IF \E i \in 1..Len(visitor.products) : visitor.products[i].name = product
    THEN [visitor EXCEPT !._current_product =
              CHOOSE i \in 1..Len(visitor.products) : visitor.products[i].name = product]
    ELSE PdfReportVisitor(
             Append(visitor.products,
                    [name |-> product, components |-> <<>>,
                     impact_factors |-> ImpactFactors(children, product)]),
             Len(visitor.products) + 1)

\* PdfReportVisitor.visit_composite_product
PdfReportVisitor_visit_composite_product(children, visitor, product) ==
    PdfReportVisitor(
        Append(visitor.products,
               [name |-> product, components |-> <<>>,
                impact_factors |-> ImpactFactors(children, product)]),
        Len(visitor.products) + 1)

\* the visitor after the calls of one traversal, from call i on
RECURSIVE VisitAll(_, _, _, _)
VisitAll(children, visitor, calls, i) ==
    IF i > Len(calls) THEN visitor
    ELSE VisitAll(children,
                  IF calls[i][1] = "visit_composite_product"
                  THEN PdfReportVisitor_visit_composite_product(children, visitor, calls[i][2])
                  ELSE PdfReportVisitor_visit_simple_component(visitor, calls[i][2]),
                  calls, i + 1)

\* the components of the calls of the given kind, in order
RECURSIVE Visited(_, _)
Visited(calls, method) ==
    IF calls = <<>> THEN <<>>
    ELSE (IF calls[1][1] = method THEN <<calls[1][2]>> ELSE <<>>)
             \o Visited(Tail(calls), method)

\* the number of components in the records
RECURSIVE RecordedComponents(_)
RecordedComponents(records) ==
    IF records = <<>> THEN 0
    ELSE Len(records[1].components) + RecordedComponents(Tail(records))

\* node.accept(visitor) with the one report visitor
visitor_accept(node) ==
    LET r == ProductComponent_accept(_children, node)
        visitor == VisitAll(_children, PdfReportVisitor(products, _current_product),
                            r.visited, 1)
    IN  /\ r.error = ""
        /\ Len(visitor.products) <= MaxRecords
        /\ RecordedComponents(visitor.products) <= MaxRecords
        /\ products' = visitor.products
        /\ _current_product' = visitor._current_product
        /\ composites_visited' =
               composites_visited \o Visited(r.visited, "visit_composite_product")
        /\ vis_last' = [op |-> "accept", node |-> node, first |-> Len(products) + 1,
                        current |-> _current_product]

InitVisitor ==
    /\ products = <<>>
    /\ _current_product = 0
    /\ composites_visited = <<>>
    /\ vis_last = [op |-> "none", node |-> "", first |-> 1, current |-> 0]

(***************************************************************************)
(* One CommandHistory over one mapping, driven directly:                   *)
(* app/core/patterns/command.py                                            *)
(***************************************************************************)
VARIABLES
    initial_config,    \* history: the mapping as it was before the first command
    execute_calls      \* history: how many times CommandHistory.execute was called

histVars == <<initial_config, execute_calls>>

\* the parts of the config module the CommandHistory methods leave alone
HistoryUntouched == <<subject_weights, module_weights, cmd_last, cmd_read, undo_since_execute>>

\* history.execute(UpdateWeightCommand(config, criterion_name, new_weight)) with a
\* command object made for the call
history_execute(criterion_name, new_weight) ==
    /\ execute_calls < MaxExecutes
    /\ Len(_history) < MaxHistory
    /\ \E now \in Clock(cmd_now) :
          /\ SetHistory(CommandHistory_execute(CurrentHistory,
                            UpdateWeightCommand(criterion_name, new_weight), now))
          /\ cmd_now' = now
    /\ execute_calls' = execute_calls + 1
    /\ UNCHANGED <<initial_config, HistoryUntouched>>

\* history.undo()
history_undo ==
    /\ SetHistory(CommandHistory_undo(CurrentHistory).st)
    /\ UNCHANGED <<cmd_now, histVars, HistoryUntouched>>

\* history.redo()
history_redo ==
    /\ \E now \in Clock(cmd_now) :
          LET r == CommandHistory_redo(CurrentHistory, now)
          IN  /\ SetHistory(r.st)
              /\ cmd_now' = IF r.ok THEN now ELSE cmd_now
    /\ UNCHANGED <<histVars, HistoryUntouched>>

InitHistory ==
    /\ initial_config = [k \in {"material_sustainability", "carbon_footprint",
                                "water_usage", "social_impact", "circularity"} |->
                           CASE k = "material_sustainability" -> 30
                             [] k = "carbon_footprint" -> 25
                             [] k = "water_usage" -> 20
                             [] k = "social_impact" -> 15
                             [] k = "circularity" -> 10]
    /\ execute_calls = 0

vars == <<scVars, cmdVars, cacheVars, chainVars, treeVars, decVars, prodVars, obsVars, bldVars, concVars, scThreadVars, visVars, histVars>>

InitAll ==
    InitScorecard /\ InitCommand /\ InitCache /\ InitChain /\ InitTree /\ InitDecorator /\ InitProducts /\ InitObserver /\ InitBuilder /\ InitConcurrent /\ InitScorecardThreads /\ InitVisitor /\ InitHistory

\* a product tree is in place before the first badge is applied
InitDecorated ==
    /\ InitScorecard /\ InitCommand /\ InitCache /\ InitChain /\ InitDecorator /\ InitProducts /\ InitObserver /\ InitBuilder /\ InitConcurrent /\ InitScorecardThreads /\ InitVisitor /\ InitHistory
    /\ _children \in SampleTrees
    /\ tree_last = [op |-> "none", node |-> "", error |-> ""]

\* the variables each subsystem leaves alone
scFrame == UNCHANGED <<cmdVars, cacheVars, chainVars, treeVars, decVars, prodVars, obsVars, bldVars, concVars, scThreadVars, visVars, histVars>>
cmdFrame == UNCHANGED <<scVars, cacheVars, chainVars, treeVars, decVars, prodVars, obsVars, bldVars, concVars, scThreadVars, visVars, histVars>>
cacheFrame == UNCHANGED <<scVars, cmdVars, chainVars, treeVars, decVars, prodVars, obsVars, bldVars, concVars, scThreadVars, visVars, histVars>>
chainFrame == UNCHANGED <<scVars, cmdVars, cacheVars, treeVars, decVars, prodVars, obsVars, bldVars, concVars, scThreadVars, visVars, histVars>>
treeFrame == UNCHANGED <<scVars, cmdVars, cacheVars, chainVars, decVars, prodVars, obsVars, bldVars, concVars, scThreadVars, visVars, histVars>>
decFrame == UNCHANGED <<scVars, cmdVars, cacheVars, chainVars, prodVars, obsVars, bldVars, concVars, scThreadVars, visVars, histVars>>
prodFrame == UNCHANGED <<scVars, cmdVars, cacheVars, chainVars, treeVars, decVars, obsVars, bldVars, concVars, scThreadVars, visVars, histVars>>
obsFrame == UNCHANGED <<scVars, cmdVars, cacheVars, chainVars, treeVars, decVars, prodVars, bldVars, concVars, scThreadVars, visVars, histVars>>
bldFrame == UNCHANGED <<scVars, cmdVars, cacheVars, chainVars, treeVars, decVars, prodVars, obsVars, concVars, scThreadVars, visVars, histVars>>
concFrame == UNCHANGED <<scVars, cacheVars, chainVars, treeVars, decVars, prodVars, obsVars, bldVars, scThreadVars, visVars, histVars>>
scThreadFrame == UNCHANGED <<cmdVars, cacheVars, chainVars, treeVars, decVars, prodVars, obsVars, bldVars, concVars, visVars, histVars>>
visFrame == UNCHANGED <<scVars, cmdVars, cacheVars, chainVars, treeVars, decVars, prodVars, obsVars, bldVars, concVars, scThreadVars, histVars>>
histFrame == UNCHANGED <<scVars, cacheVars, chainVars, treeVars, decVars, prodVars, obsVars, bldVars, concVars, scThreadVars, visVars>>

NextScorecard ==
    \/ \E product_name \in ProductNames, score \in Scores :
           create_scorecard(product_name, score) /\ scFrame
    \/ \E scorecard_id \in ScorecardIds : get_scorecard(scorecard_id) /\ scFrame
    \/ \E scorecard_id \in ScorecardIds : submit_for_review(scorecard_id) /\ scFrame
    \/ \E scorecard_id \in ScorecardIds : certify_scorecard(scorecard_id) /\ scFrame
    \/ \E scorecard_id \in ScorecardIds : deprecate_scorecard(scorecard_id) /\ scFrame
    \/ \E scorecard_id \in ScorecardIds : edit_scorecard(scorecard_id) /\ scFrame

SpecScorecard == InitAll /\ [][NextScorecard]_vars

NextCommand ==
    \/ \E weight_data \in WeightUpdates : update_weights(weight_data) /\ cmdFrame
    \/ undo_weight_change /\ cmdFrame
    \/ redo_weight_change /\ cmdFrame
    \/ get_weights /\ cmdFrame
    \/ get_weight_history /\ cmdFrame

SpecCommand == InitAll /\ [][NextCommand]_vars

NextCache ==
    \/ \E supplier_id \in SupplierIds : get_data_with_fallback(supplier_id) /\ cacheFrame
    \/ invalidate_cache /\ cacheFrame
    \/ \E d \in TickSteps : Tick(d) /\ cacheFrame

SpecCache == InitAll /\ [][NextCache]_vars

NextChain ==
    \/ \E request \in ChainRequests : handle_request(request) /\ chainFrame

SpecChain == InitAll /\ [][NextChain]_vars

NextTree ==
    \/ \E p \in Composites, c \in Components : add(p, c, MaxEdges) /\ treeFrame
    \/ \E p \in Composites, c \in Components : remove(p, c) /\ treeFrame
    \/ \E node \in Components : get_impact_factors(node) /\ treeFrame
    \/ \E node \in Components : accept(node) /\ treeFrame

SpecTree == InitAll /\ [][NextTree]_vars

\* building a product and handing out its child list
NextChildren ==
    \/ \E p \in Composites, c \in Components : add(p, c, MaxEdges) /\ treeFrame
    \/ \E p \in Composites, c \in Components : remove(p, c) /\ treeFrame
    \/ \E p \in Composites : get_children(p) /\ treeFrame
    \/ list_clear /\ treeFrame
    \/ \E c \in Components : list_append(c) /\ treeFrame
    \/ \E c \in Components : list_remove(c) /\ treeFrame

SpecChildren == InitAll /\ [][NextChildren]_vars

\* building a product and scoring it
NextScoring ==
    \/ \E p \in Composites, c \in Components : add(p, c, MaxEdges) /\ treeFrame
    \/ \E p \in Composites, c \in Components : remove(p, c) /\ treeFrame
    \/ \E strategy \in FixedStrategies, node \in Components :
           calculate_score(strategy, node) /\ treeFrame

SpecScoring == InitAll /\ [][NextScoring]_vars

\* building a product and scoring it with client-supplied weights
NextCustomScoring ==
    \/ \E p \in Composites, c \in Components : add(p, c, MaxEdges) /\ treeFrame
    \/ \E p \in Composites, c \in Components : remove(p, c) /\ treeFrame
    \/ \E weights \in CustomWeights, node \in Components :
           calculate_custom_score(weights, node) /\ treeFrame

SpecCustomScoring == InitAll /\ [][NextCustomScoring]_vars

NextProducts ==
    \/ \E components \in ComponentLists, badges \in BadgeLists :
           create_product(components, badges) /\ prodFrame

SpecProducts == InitAll /\ [][NextProducts]_vars

NextObserver ==
    \/ \E observer \in Observers : subject_attach(observer) /\ obsFrame
    \/ \E observer \in Observers : subject_detach(observer) /\ obsFrame
    \/ \E weights \in FreshWeights : subject_set_weights(weights) /\ obsFrame
    \/ \E criterion \in {"carbon_footprint"}, new_weight \in CallerValues :
           caller_resubmit(criterion, new_weight) /\ obsFrame
    \/ \E observer \in Observers : observer_get_current_weights(observer) /\ obsFrame

SpecObserver == InitAll /\ [][NextObserver]_vars

NextBuilder ==
    \/ \E name \in BuilderNames : start_new_product(name) /\ bldFrame
    \/ \E method \in AddMethods, name \in {"Body"} : builder_add(method, name) /\ bldFrame
    \/ build /\ bldFrame

SpecBuilder == InitAll /\ [][NextBuilder]_vars

NextConcurrentConfig ==
    \/ \E t \in Threads, op \in {"update", "undo", "redo"},
          criterion \in {"carbon_footprint"}, new_weight \in {50} :
           start_request(t, op, criterion, new_weight) /\ concFrame
    \/ \E t \in Threads : undo_check(t) /\ concFrame
    \/ \E t \in Threads : undo_pop(t) /\ concFrame
    \/ \E t \in Threads : undo_command(t) /\ concFrame
    \/ \E t \in Threads : undo_push(t) /\ concFrame
    \/ \E t \in Threads : redo_check(t) /\ concFrame
    \/ \E t \in Threads : redo_pop(t) /\ concFrame
    \/ \E t \in Threads : command_execute(t) /\ concFrame
    \/ \E t \in Threads : history_append(t) /\ concFrame
    \/ \E t \in Threads : undo_stack_clear(t) /\ concFrame
    \/ \E t \in Threads : notify_and_return(t) /\ concFrame

SpecConcurrentConfig == InitAll /\ [][NextConcurrentConfig]_vars

NextConcurrentScorecards ==
    \/ \E product_name \in {"tshirt"}, score \in {75} :
           create_scorecard(product_name, score) /\ UNCHANGED scThreadVars /\ scThreadFrame
    \/ \E t \in Threads, event \in Events, scorecard_id \in ScorecardIds :
           transition_request(t, event, scorecard_id) /\ scThreadFrame
    \/ \E t \in Threads : load_state(t) /\ scThreadFrame
    \/ \E t \in Threads : state_method(t) /\ scThreadFrame
    \/ \E t \in Threads : transition_response(t) /\ scThreadFrame

SpecConcurrentScorecards == InitAll /\ [][NextConcurrentScorecards]_vars

NextVisitor ==
    \E node \in Leaves \cup Composites : visitor_accept(node) /\ visFrame

SpecVisitor == InitDecorated /\ [][NextVisitor]_vars

NextHistory ==
    \/ \E criterion_name \in CriteriaInputs, new_weight \in NewWeights :
           history_execute(criterion_name, new_weight) /\ histFrame
    \/ history_undo /\ histFrame
    \/ history_redo /\ histFrame

SpecHistory == InitAll /\ [][NextHistory]_vars

NextDecorator ==
    \/ \E class \in BadgeClasses, node \in Components : decorate(class, node) /\ decFrame
    \/ decorated_get_impact_factors /\ decFrame
    \/ decorated_accept /\ decFrame
    \/ total_modifier /\ decFrame

SpecDecorator == InitDecorated /\ [][NextDecorator]_vars

(***************************************************************************)
(* Properties of the scorecard lifecycle                                   *)
(***************************************************************************)
\* the transition table of the lifecycle: <<from, event, to>>
LegalTransitions ==
    { <<"Draft", "submit_for_review", "InReview">>,
      <<"Draft", "edit", "Draft">>,
      <<"InReview", "edit", "Draft">>,
      <<"InReview", "certify", "Certified">>,
      <<"Certified", "deprecate", "Deprecated">> }

IsLegal(from, event) == \E t \in LegalTransitions : t[1] = from /\ t[2] = event

\* C1: an event on an existing scorecard succeeds exactly for the five pairs
\* of the transition table, and after a successful call get_state_name()
\* (and the state in the response) is the target state listed for the pair.
C1_LifecycleTransitions ==
    (sc_last.op \in Events /\ sc_last.status # 404) =>
        /\ (sc_last.status = 200) <=> IsLegal(sc_last.pre, sc_last.op)
        /\ sc_last.status = 200 =>
              /\ <<sc_last.pre, sc_last.op,
                   get_state_name(scorecards_db[sc_last.id])>> \in LegalTransitions
              /\ sc_last.state = get_state_name(scorecards_db[sc_last.id])

C1_Witness ==
    /\ sc_last.op = "deprecate" /\ sc_last.pre = "Certified" /\ sc_last.status = 200
    /\ \E id \in DOMAIN scorecards_db : get_state_name(scorecards_db[id]) = "Draft"

\* C2: an event that is not legal in the scorecard's current state is answered
\* with the InvalidStateTransitionError (HTTP 400 carrying its reason) and
\* leaves every scorecard, the addressed one included, as it was.
C2_IllegalEventFailsUnchanged ==
    [][ \A id \in DOMAIN scorecards_db, e \in Events :
          (sc_last'.op = e /\ sc_last'.id = id
             /\ ~IsLegal(get_state_name(scorecards_db[id]), e)) =>
                /\ sc_last'.status = 400
                /\ sc_last'.detail # ""
                /\ scorecards_db' = scorecards_db ]_vars

C2_Witness ==
    /\ sc_last.op = "certify" /\ sc_last.pre = "Draft" /\ sc_last.status = 400
    /\ get_state_name(scorecards_db[sc_last.id]) = "Draft"

\* C3: once a scorecard is Deprecated it is Deprecated after every further
\* step, and every event addressed to it fails.
C3_DeprecatedTerminal ==
    [][ \A id \in DOMAIN scorecards_db :
          get_state_name(scorecards_db[id]) = "Deprecated" =>
             /\ id \in DOMAIN scorecards_db'
             /\ get_state_name(scorecards_db'[id]) = "Deprecated"
             /\ (sc_last'.id = id /\ sc_last'.op \in Events) => sc_last'.status = 400 ]_vars

C3_Witness ==
    /\ sc_last.op = "edit" /\ sc_last.pre = "Deprecated" /\ sc_last.status = 400
    /\ get_state_name(scorecards_db[sc_last.id]) = "Deprecated"

\* C4: a scorecard enters the store in Draft, and no step removes a scorecard
\* or changes its id, product_name or score.
C4_OnlyStateChanges ==
    [][ /\ \A id \in DOMAIN scorecards_db :
              /\ id \in DOMAIN scorecards_db'
              /\ scorecards_db'[id].scorecard_id = scorecards_db[id].scorecard_id
              /\ scorecards_db'[id].product_name = scorecards_db[id].product_name
              /\ scorecards_db'[id].score = scorecards_db[id].score
        /\ \A id \in DOMAIN scorecards_db' \ DOMAIN scorecards_db :
              /\ get_state_name(scorecards_db'[id]) = "Draft"
              /\ scorecards_db'[id].scorecard_id = id
              /\ sc_last'.op = "create" /\ sc_last'.state = "Draft" ]_vars

C4_Witness ==
    \E id \in DOMAIN scorecards_db :
        /\ get_state_name(scorecards_db[id]) = "Certified"
        /\ scorecards_db[id].score = 75
        /\ scorecards_db[id].product_name = "jacket"
        /\ sc_last.id = id /\ sc_last.op = "submit_for_review" /\ sc_last.status = 400

(***************************************************************************)
(* Properties of the weight-change command history                         *)
(***************************************************************************)
HistoryUnchanged == UNCHANGED <<weights_store, _history, _undo_stack>>

\* the step is a request of the given kind to the command history
IsCommandStep(op) == cmd_read' = NoRead /\ cmd_last'.op = op

\* C5: an undo right after an execute succeeds and leaves the weight mapping
\* exactly as it was before that execute (same keys, same values); a redo
\* right after that undo succeeds and leaves the mapping exactly as the
\* execute had left it.
C5_UndoRedoRestore ==
    [][ /\ (IsCommandStep("undo") /\ cmd_last'.chain = 2) =>
              /\ cmd_last'.ok
              /\ weights_store' = cmd_last.before
        /\ (IsCommandStep("redo") /\ cmd_last'.chain = 3) =>
              /\ cmd_last'.ok
              /\ weights_store' = cmd_last.before ]_vars

C5_Witness ==
    /\ cmd_last.op = "redo" /\ cmd_last.ok /\ cmd_last.chain = 3
    /\ "durability" \in DOMAIN weights_store
    /\ "durability" \notin DOMAIN cmd_last.before

\* C6: undo with an empty history and redo with an empty redo stack report
\* failure, raise nothing and leave the mapping and both lists unchanged.
C6_EmptyUndoRedoFail ==
    [][ /\ (IsCommandStep("undo") /\ _history = <<>>) =>
              /\ ~cmd_last'.ok /\ cmd_last'.error = ""
              /\ cmd_last'.message = "Nothing to undo"
              /\ HistoryUnchanged
        /\ (IsCommandStep("redo") /\ _undo_stack = <<>>) =>
              /\ ~cmd_last'.ok /\ cmd_last'.error = ""
              /\ cmd_last'.message = "Nothing to redo"
              /\ HistoryUnchanged ]_vars

C6_Witness ==
    /\ cmd_last.op = "undo" /\ ~cmd_last.ok
    /\ _history = <<>> /\ _undo_stack # <<>>

\* C7: every execute leaves the redo stack empty, and a redo fails and
\* changes nothing unless an undo has succeeded since the last execute.
C7_ExecuteClearsRedo ==
    [][ /\ IsCommandStep("execute") => _undo_stack' = <<>>
        /\ (IsCommandStep("redo") /\ ~undo_since_execute) =>
              /\ ~cmd_last'.ok
              /\ HistoryUnchanged ]_vars

C7_Witness ==
    /\ cmd_last.op = "redo" /\ ~cmd_last.ok
    /\ ~undo_since_execute /\ Len(_history) = 2
    /\ weights_store["carbon_footprint"] = 90

\* C8: the log returned by get_history_log() only grows: every step keeps
\* the entries the log had, in place.
C8_HistoryLogAppendOnly ==
    [][ LET old == get_history_log(_history)
            new == get_history_log(_history')
        IN  /\ Len(new) >= Len(old)
            /\ SubSeq(new, 1, Len(old)) = old ]_vars

(***************************************************************************)
(* Properties of the caching proxy                                         *)
(***************************************************************************)
\* the step is a get_data request for the supplier
IsGetData(supplier_id) ==
    /\ time_now' = time_now
    /\ cache_last'.op = "get_data"
    /\ cache_last'.supplier_id = supplier_id

\* C9: get_data answers cached=True, with the answer stored, exactly when the
\* key's last miss since the last invalidation is less than ttl_seconds old;
\* then it neither queries the chain nor touches the cache.  Otherwise it
\* queries the chain, stores the answer with the current time and answers
\* cached=False.
C9_CacheHitIffFresh ==
    [][ \A id \in SupplierIds :
          IsGetData(id) =>
            LET key == cache_key([supplier_id |-> id])
                fresh == miss_at[id] # None /\ time_now - miss_at[id][1] < ttl_seconds
                answer == RealDataHandler_handle([supplier_id |-> id])
            IN  /\ cache_last'.response.cached <=> fresh
                /\ fresh =>
                     /\ cache_last'.response = WithCached(_cache[key][1], TRUE)
                     /\ ~cache_last'.queried
                     /\ _cache' = _cache
                /\ ~fresh =>
                     /\ cache_last'.response = WithCached(answer, FALSE)
                     /\ cache_last'.queried
                     /\ key \in DOMAIN _cache'
                     /\ _cache'[key] = <<answer, time_now>>
                     /\ \A k \in DOMAIN _cache' \ {key} :
                           k \in DOMAIN _cache /\ _cache'[k] = _cache[k] ]_vars

\* a miss exactly ttl_seconds after the miss that stored the entry, with a
\* hit in between
C9_Witness ==
    /\ cache_last.op = "get_data" /\ cache_last.supplier_id = "SUP001"
    /\ ~cache_last.response.cached
    /\ time_now = 2 * ttl_seconds
    /\ miss_at["SUP001"] = Some(time_now)
    /\ miss_at["SUP999"] = Some(ttl_seconds)

\* C10: the first get_data for a key after an invalidate_cache answers
\* cached=False and queries the chain, whatever was cached before.
C10_InvalidateForcesMiss ==
    [][ \A id \in SupplierIds :
          (IsGetData(id) /\ id \in pending) =>
              /\ ~cache_last'.response.cached
              /\ cache_last'.queried ]_vars

\* a key whose entry was 100 seconds old when the invalidation dropped it is
\* asked for right after the invalidation
C10_Witness ==
    /\ cache_last.op = "get_data" /\ cache_last.supplier_id = "SUP999"
    /\ ~cache_last.response.cached /\ cache_last.queried
    /\ pending = {"SUP001"}
    /\ dropped = {"SUP001", "SUP999"}
    /\ time_now = 100

(***************************************************************************)
(* Properties of the handler chain                                         *)
(***************************************************************************)
\* C11: a request whose supplier_id is in the real data source is answered by
\* the real handler with that supplier's data and goes no further; every
\* other request goes on to the AI handler and is answered with source
\* ai_estimation; no answer has source none.
C11_ChainOrder ==
    \A i \in DOMAIN chain_log :
        LET e == chain_log[i]
            known == /\ "supplier_id" \in DOMAIN e.request
                     /\ e.request.supplier_id \in {"SUP001", "SUP002"}
        IN  /\ e.result.source # "none"
            /\ known =>
                 /\ e.result.source = "real"
                 /\ e.result.data = real_data_source[e.request.supplier_id]
                 /\ e.visited = <<"real_handler">>
            /\ ~known =>
                 /\ e.result.source = "ai_estimation"
                 /\ e.result.data.is_estimated
                 /\ e.visited = <<"real_handler", "ai_handler">>

C11_Witness ==
    /\ Len(chain_log) = 3
    /\ chain_log[1].request = [supplier_id |-> "SUP002"]
    /\ chain_log[1].result.source = "real"
    /\ chain_log[2].request = [supplier_id |-> ""]
    /\ chain_log[2].result.source = "ai_estimation"
    /\ chain_log[3].request = [region |-> "EU"]
    /\ chain_log[3].visited = <<"real_handler", "ai_handler">>

(***************************************************************************)
(* Claims about the component tree                                         *)
(***************************************************************************)
\* how often a component is listed as a child, over all composites
Occurrences(children, c) ==
    Cardinality(UNION { { <<p, i>> : i \in { j \in DOMAIN children[p] : children[p][j] = c } } :
                        p \in Composites })

\* the child lists form a forest: one parent and one place at most, no cycle
IsTree(children) ==
    /\ \A c \in Components : Occurrences(children, c) <= 1
    /\ \A p \in Composites : p \notin Descendants(children, p)

\* the sum of f over the set S
RECURSIVE RSum(_, _)
RSum(f, S) ==
    IF S = {} THEN Num(0)
    ELSE LET x == CHOOSE y \in S : TRUE
         IN  RAdd(f[x], RSum(f, S \ {x}))

DescendantLeaves(children, node) == Descendants(children, node) \cap Leaves

LeafWeight == [l \in Leaves |-> SimpleComponent(l).weight_kg]

\* a call of get_impact_factors on a composite of a tree has just returned
FactorsOfTree ==
    /\ tree_last.op = "get_impact_factors"
    /\ tree_last.node \in Composites
    /\ IsTree(_children)

\* C12: in a tree built by add() and remove(), the weight_kg a composite reports
\* is the sum of weight_kg over all the leaves below it, at any depth.
C12_WeightIsLeafSum ==
    FactorsOfTree =>
        /\ tree_last.error = ""
        /\ tree_last.factors.weight_kg =
               RSum(LeafWeight, DescendantLeaves(_children, tree_last.node))

\* a nested tree P1[P2[L1], L2] reports 4 kg
C12_Witness ==
    /\ FactorsOfTree
    /\ tree_last.node = "P1"
    /\ _children = [P1 |-> <<"P2", "L2">>, P2 |-> <<"L1">>]
    /\ tree_last.factors.weight_kg = Num(4)

\* C13: a composite whose total weight is 0 (no children, or only weightless
\* ones) reports recyclability 0 and recycled_content 0, with no error.
C13_ZeroWeightAverages ==
    (/\ FactorsOfTree
     /\ RSum(LeafWeight, DescendantLeaves(_children, tree_last.node)) = Num(0))
    => /\ tree_last.error = ""
       /\ tree_last.factors.recyclability = Num(0)
       /\ tree_last.factors.recycled_content = Num(0)

\* a composite holding a weightless leaf and an empty composite
C13_Witness ==
    /\ FactorsOfTree
    /\ tree_last.node = "P1"
    /\ _children = [P1 |-> <<"L0", "P2">>, P2 |-> <<>>]
    /\ tree_last.factors.recyclability = Num(0)
    /\ tree_last.factors.weight_kg = Num(0)

\* the factors each direct child reports
ChildFactors(children, p) ==
    [i \in DOMAIN children[p] |-> ImpactFactors(children, children[p][i])]

\* sum of factor * weight_kg over the direct children, over their total weight
ChildAverage(children, p, factor) ==
    LET cf == ChildFactors(children, p)
    IN  RDiv(RSum([i \in DOMAIN cf |-> RMul(cf[i][factor], cf[i].weight_kg)], DOMAIN cf),
             RSum([i \in DOMAIN cf |-> cf[i].weight_kg], DOMAIN cf))

\* the leaf attribute behind a factor
LeafFactor(l, factor) ==
    IF factor = "recyclability" THEN SimpleComponent(l).recyclability_score
    ELSE SimpleComponent(l).recycled_content_percentage

\* sum of factor * weight_kg over all leaves below, over their total weight
LeafAverage(children, p, factor) ==
    LET ls == DescendantLeaves(children, p)
    IN  RDiv(RSum([l \in ls |-> RMul(LeafFactor(l, factor), LeafWeight[l])], ls),
             RSum(LeafWeight, ls))

\* C14: with a positive total weight the aggregated recyclability and
\* recycled_content are the weight-weighted averages over the direct children,
\* which for nested composites is the leaf-weight-weighted average over all
\* leaves below (1 kg at 0.6 and 3 kg at 0.8 give 0.75).
C14_WeightedAverage ==
    (/\ FactorsOfTree
     /\ RLess(Num(0), RSum(LeafWeight, DescendantLeaves(_children, tree_last.node))))
    => \A factor \in {"recyclability", "recycled_content"} :
          /\ tree_last.factors[factor] = ChildAverage(_children, tree_last.node, factor)
          /\ tree_last.factors[factor] = LeafAverage(_children, tree_last.node, factor)

\* the 1 kg leaf nested one level down, the 3 kg leaf directly: 0.75
C14_Witness ==
    /\ FactorsOfTree
    /\ tree_last.node = "P1"
    /\ _children = [P1 |-> <<"P2", "L2">>, P2 |-> <<"L1">>]
    /\ tree_last.factors.recyclability = Rat(3, 4)

\* C16: after any sequence of add() and remove() calls the components form a
\* tree: nothing is a child of two composites or twice a child of one, and no
\* composite lies below itself.
C16_StructureIsTree == IsTree(_children)

\* the caller has just changed a list that get_children() returned
ListMutations == {"list_clear", "list_append", "list_remove"}

\* C15: get_children() hands out a copy: clearing, appending to or removing from
\* the returned list leaves the composite's children as they were, so a later
\* get_children() and get_impact_factors() give what they gave before.
C15_DefensiveCopy ==
    [][tree_last'.op \in ListMutations =>
          /\ _children' = _children
          /\ \A p \in Composites :
                /\ CompositeProduct_get_children(_children', p).items
                       = CompositeProduct_get_children(_children, p).items
                /\ ProductComponent_get_impact_factors(_children', p)
                       = ProductComponent_get_impact_factors(_children, p)]_vars

\* the returned list was cleared while the composite keeps its two children
C15_Witness ==
    /\ tree_last.op = "list_clear"
    /\ tree_last.returned.items = <<>>
    /\ tree_last.node = "P1"
    /\ _children["P1"] = <<"L1", "L2">>

\* where the visit of component x stands in the sequence v
Pos(v, x) == CHOOSE i \in DOMAIN v : v[i][2] = x

\* C17: accept(visitor) walks a tree in pre-order: the composite is reported by
\* visit_composite_product before anything below it, then each child's subtree
\* is walked completely, in insertion order; a leaf gives one
\* visit_simple_component; every node is visited exactly once.
C17_PreOrder ==
    (/\ tree_last.op = "accept"
     /\ IsTree(_children))
    => LET v == tree_last.visited
           nodes == {tree_last.node} \cup Descendants(_children, tree_last.node)
           size(x) == 1 + Cardinality(Descendants(_children, x))
       IN  /\ tree_last.error = ""
           /\ Len(v) = Cardinality(nodes)
           /\ \A x \in nodes : \E i \in DOMAIN v : v[i][2] = x
           /\ \A i \in DOMAIN v :
                 v[i][1] = IF v[i][2] \in Leaves THEN "visit_simple_component"
                           ELSE "visit_composite_product"
           /\ v[1][2] = tree_last.node
           /\ \A q \in nodes \cap Composites :
                 LET kids == _children[q]
                 IN  /\ \A d \in Descendants(_children, q) : Pos(v, q) < Pos(v, d)
                     /\ \A k \in DOMAIN kids :
                           /\ Pos(v, kids[k]) =
                                  IF k = 1 THEN Pos(v, q) + 1
                                  ELSE Pos(v, kids[k - 1]) + size(kids[k - 1])
                           /\ \A d \in Descendants(_children, kids[k]) :
                                 Pos(v, d) < Pos(v, kids[k]) + size(kids[k])

\* P1[P2[L1], L2]: the nested composite and its leaf come before the second child
C17_Witness ==
    /\ tree_last.op = "accept"
    /\ tree_last.node = "P1"
    /\ _children = [P1 |-> <<"P2", "L2">>, P2 |-> <<"L1">>]
    /\ tree_last.visited = << <<"visit_composite_product", "P1">>,
                              <<"visit_composite_product", "P2">>,
                              <<"visit_simple_component", "L1">>,
                              <<"visit_simple_component", "L2">> >>

(***************************************************************************)
(* Claims about the badge decorators                                       *)
(***************************************************************************)
\* C18: badges are transparent: however many are stacked and in whatever
\* order, get_impact_factors() of the decorated node equals that of the base
\* node and accept(visitor) gives the base node's visits; applying a badge
\* changes neither the wrapped objects nor the component tree.
C18_BadgesTransparent ==
    /\ [](dec_last.op = "get_impact_factors" =>
             dec_last.result = ProductComponent_get_impact_factors(_children, dec_base))
    /\ [](dec_last.op = "accept" =>
             dec_last.result = ProductComponent_accept(_children, dec_base))
    /\ [][dec_last'.op = "decorate" =>
             /\ _children' = _children
             /\ SubSeq(decorators', 1, Len(decorators)) = decorators
             /\ decorators # <<>> => dec_base' = dec_base]_vars

\* three badges on the nested product P1[P2[L1], L2] still report its 4 kg
C18_Witness ==
    /\ dec_last.op = "get_impact_factors"
    /\ dec_base = "P1"
    /\ _children = [P1 |-> <<"P2", "L2">>, P2 |-> <<"L1">>]
    /\ Len(decorators) = 3
    /\ decorators[3].class = "NonCompliantBadge"
    /\ decorators[1].class = "VeganBadge"
    /\ dec_last.result.factors.weight_kg = Num(4)

\* the classes of the chain as a bag: how many badges of each class
BadgeCount(class) ==
    Cardinality({ i \in DOMAIN decorators : decorators[i].class = class })

\* C19: the walk from the outermost badge to the base meets every badge once,
\* and the total modifier depends only on which badges are stacked, not on
\* their order; OekoTex, Vegan and FairTrade in any order give -12.
C19_ModifierSum ==
    dec_last.op = "total_modifier" =>
        LET r == dec_last.result
        IN  /\ Len(r.walked) = Len(decorators)
            /\ \A i \in DOMAIN decorators : \E k \in DOMAIN r.walked : r.walked[k] = i
            /\ \A k \in DOMAIN r.walked : r.walked[k] = Len(decorators) + 1 - k
            /\ r.total_modifier =
                   BadgeCount("FairTradeBadge") * get_score_modifier("FairTradeBadge")
                   + BadgeCount("VeganBadge") * get_score_modifier("VeganBadge")
                   + BadgeCount("OekoTexBadge") * get_score_modifier("OekoTexBadge")
                   + BadgeCount("NonCompliantBadge") * get_score_modifier("NonCompliantBadge")
            /\ (/\ Len(decorators) = 3
                /\ { decorators[i].class : i \in DOMAIN decorators }
                       = {"OekoTexBadge", "VeganBadge", "FairTradeBadge"})
               => r.total_modifier = -12

\* Vegan, then FairTrade, then OekoTex outermost: -12
C19_Witness ==
    /\ dec_last.op = "total_modifier"
    /\ Len(decorators) = 3
    /\ decorators[1].class = "VeganBadge"
    /\ decorators[2].class = "FairTradeBadge"
    /\ decorators[3].class = "OekoTexBadge"
    /\ dec_last.result.total_modifier = -12
    /\ dec_last.result.walked = <<3, 2, 1>>

(***************************************************************************)
(* Claims about the scoring strategies                                     *)
(***************************************************************************)
\* C20: for every leaf and composite (weightless ones included) with
\* non-negative factors, the Higg index, carbon footprint and circular economy
\* scores lie within 0 and 100.
C20_ScoreRange ==
    (/\ tree_last.op = "calculate_score"
     /\ tree_last.error = "")
    => /\ RLeq(Num(0), tree_last.score)
       /\ RLeq(tree_last.score, Num(100))

\* the heavy-impact leaf L2: CO2 and energy sub-scores are floored at 0, only
\* the water sub-score of 40 counts, giving 12 on the Higg index
C20_Witness ==
    /\ tree_last.op = "calculate_score"
    /\ tree_last.strategy = "higg_index"
    /\ tree_last.node = "P1"
    /\ _children["P1"] = <<"L2">>
    /\ tree_last.score = Num(12)

\* the weightless leaf L0 with out-of-scale recycling figures is capped at 100
C20_WitnessCapped ==
    /\ tree_last.op = "calculate_score"
    /\ tree_last.strategy = "circular_economy"
    /\ tree_last.node = "L0"
    /\ tree_last.score = Num(100)

\* C21: the score CustomStrategy returns does not exceed 100, whatever the
\* component and the weights mapping.
C21_CustomScoreAtMost100 ==
    (/\ tree_last.op = "calculate_custom_score"
     /\ tree_last.error = "")
    => RLeq(tree_last.score, Num(100))

(***************************************************************************)
(* Claims about product creation                                           *)
(***************************************************************************)
\* the request named a badge type that BADGE_MAP does not know
UnknownBadgeSent ==
    /\ prod_last.op = "create_product"
    /\ \E i \in DOMAIN prod_last.badges : prod_last.badges[i] \notin DOMAIN BADGE_MAP

\* C22: a badge identifier that is not a known badge type is answered with a
\* client error; the product is not returned as if the list had been accepted.
C22_UnknownBadgeIsError ==
    UnknownBadgeSent => prod_last.status >= 400

(***************************************************************************)
(* Claims about the weight observers                                       *)
(***************************************************************************)
\* C23: once detached, an observer keeps reporting the weights it reported at
\* the moment of detaching, whatever updates the subject gets afterwards,
\* also when the caller changes and passes again a dict it passed before.
C23_DetachedKeepsWeights ==
    \A o \in Observers :
        detached_weights[o] # None =>
            Deref(_current_weights[o], caller_mapping) = detached_weights[o][1]

\* how often observer o stands in the sequence s
CountIn(s, o) == Cardinality({ i \in DOMAIN s : s[i] = o })

\* C24: every attached observer is called once per set_weights, with the
\* subject's new weights, however often attach() was called for it: the
\* observer list never holds an observer twice, one detach() removes it, and
\* detaching an observer that is not attached raises ValueError.
C24_NotifiedOnce ==
    /\ [](\A o \in Observers : CountIn(_observers, o) <= 1)
    /\ [](obs_last.op = "set_weights" =>
             \A o \in Observers :
                /\ CountIn(obs_last.calls, o) = CountIn(_observers, o)
                /\ CountIn(_observers, o) = 1 =>
                      /\ _current_weights[o] = _weights
                      /\ Deref(_current_weights[o], caller_mapping)
                             = Deref(_weights, caller_mapping))
    /\ [][obs_last'.op = "detach" =>
             LET o == obs_last'.observer
             IN  IF CountIn(_observers, o) > 0
                 THEN /\ obs_last'.error = ""
                      /\ CountIn(_observers', o) = 0
                 ELSE /\ obs_last'.error = "ValueError"
                      /\ _observers' = _observers]_vars

\* attach() was called for an observer that is already attached; the list
\* still holds it once
C24_Witness ==
    /\ obs_last.op = "attach"
    /\ obs_last.already
    /\ obs_last.observer = "module1"
    /\ _observers = <<"module2", "module1">>

(***************************************************************************)
(* Claims about the product builder                                        *)
(***************************************************************************)
\* C25: add_fabric, add_lining, add_accessory and build raise BuilderError
\* exactly when no product is in progress, which is the case before the first
\* start_new_product and after every build(); a failing call changes nothing
\* in the builder, and a product that build() returned is never changed by
\* later builder calls.
C25_BuilderMisuse ==
    /\ [][builder_last'.op \in AddMethods \cup {"build"} =>
             IF _product = None
             THEN /\ builder_last'.error = "BuilderError"
                  /\ UNCHANGED <<_product, builder_products, builder_returned>>
             ELSE builder_last'.error = ""]_vars
    /\ []((builder_last.op = "none"
             \/ (builder_last.op = "build" /\ builder_last.error = ""))
          => _product = None)
    /\ [](\A id \in DOMAIN builder_returned :
             builder_products[id]._children = builder_returned[id])

\* add_lining right after a build(): BuilderError, the returned product keeps
\* its one component
C25_Witness ==
    /\ builder_last.op = "add_lining"
    /\ builder_last.error = "BuilderError"
    /\ 1 \in DOMAIN builder_returned
    /\ Len(builder_products[1]._children) = 1
    /\ _product = None

(***************************************************************************)
(* Claims about concurrent requests                                        *)
(***************************************************************************)
\* C26: config requests served at the same time exclude each other, so that
\* the outcome is that of some serial order; in particular two undo requests
\* racing on a one-entry history never make undo raise or pop from an empty
\* history.
C26_UndoNeverRaises ==
    \A t \in Threads : threads[t].error = ""

\* C27: a scorecard transition is atomic, so two transition requests served
\* at the same time on one scorecard end as some serial order of them would;
\* a scorecard for which a certify request succeeded is never left in Draft
\* or InReview.
C27_CertifiedNeverReopened ==
    \A id \in certify_succeeded :
        scorecards_db[id]._state \in {"CertifiedState", "DeprecatedState"}

(***************************************************************************)
(* Claims about the report visitor                                         *)
(***************************************************************************)
\* the names of the records, in order
RECURSIVE RecordNames(_)
RecordNames(records) ==
    IF records = <<>> THEN <<>>
    ELSE <<records[1].name>> \o RecordNames(Tail(records))

\* C28: after any number of traversals with one report visitor, its record
\* list holds exactly one record per composite visited, nested ones
\* included, in visiting order; a traversal only adds records after those
\* already there.
C28_OneRecordPerComposite ==
    /\ [](RecordNames(products) = composites_visited)
    /\ [][/\ Len(products') >= Len(products)
          /\ RecordNames(SubSeq(products', 1, Len(products))) = RecordNames(products)]_vars

\* two traversals have been recorded, one of them of a nested product
C28_Witness ==
    /\ Len(products) >= 3
    /\ vis_last.op = "accept"
    /\ vis_last.first > 1
    /\ \E i, j \in 1..Len(products) :
           /\ i < j
           /\ products[j].name \in ChildSet(_children, products[i].name)

\* C30: every leaf visited is recorded exactly once, in the components list
\* of the record of its own parent composite, also where a leaf follows a
\* nested composite among its siblings; a leaf visited before any composite
\* is recorded nowhere.
C30_LeafUnderOwnParent ==
    /\ (vis_last.op = "accept" /\ vis_last.node \in Composites) =>
           \A i \in vis_last.first..Len(products) :
               products[i].components =
                   SelectSeq(_children[products[i].name], LAMBDA c : c \in Leaves)
    /\ (vis_last.op = "accept" /\ vis_last.node \in Leaves /\ vis_last.current = 0) =>
           products = <<>>

(***************************************************************************)
(* Claims about one command history driven directly                        *)
(***************************************************************************)
\* the mapping after the assignments of the history's commands from entry i on
RECURSIVE Replay(_, _, _)
Replay(config, history, i) ==
    IF i > Len(history) THEN config
    ELSE Replay(dict_set(config, history[i][1]._criterion_name, history[i][1]._new_weight),
                history, i + 1)

\* C29: after any sequence of execute, undo and redo through one
\* CommandHistory over one mapping, the mapping is the initial mapping with
\* the assignments of the commands now in the history applied oldest first,
\* and the history and the redo stack together hold no more commands than
\* execute was called times.
C29_MappingIsReplayOfHistory ==
    /\ weights_store = Replay(initial_config, _history, 1)
    /\ Len(_history) + Len(_undo_stack) <= execute_calls

\* commands have been executed, undone and redone, one of them on a new key
C29_Witness ==
    /\ execute_calls >= 3
    /\ Len(_history) >= 2
    /\ Len(_undo_stack) >= 1
    /\ "durability" \in DOMAIN weights_store
    /\ weights_store["carbon_footprint"] # initial_config["carbon_footprint"]

====
